---- MODULE Spec2Model ----
(***************************************************************************)
(* A model of the in-memory hash join engine of                            *)
(* src/src/Interpreters/HashJoin.cpp: the build side (addJoinedBlock), the *)
(* probe side (joinBlock / joinRightColumns), the cross join streamer      *)
(* (joinBlockImplCross), the used flags (JoinUsedFlags) and the scan of    *)
(* the non-joined right rows (NotJoinedHash).                              *)
(*                                                                         *)
(* A row is a record [k, t, m]: k is the (combined) equi-join key, with    *)
(* NULL standing for "some key component is NULL"; t is the value of the   *)
(* ASOF column; m is the value of the ON-condition mask column of its      *)
(* side.  The other columns of a row are represented by the row's          *)
(* identity: a right row is the RowRef <<block, row>>, a left row is its   *)
(* index in the left block.                                                *)
(***************************************************************************)
EXTENDS Integers, Sequences, FiniteSets, TLC

VARIABLES
    table_join,          \* the TableJoin descriptor: kind, strictness, masks, limits
    any_take_last_row,   \* HashJoin::any_take_last_row
    blocks,              \* data->blocks: the stored right blocks
    maps,                \* data->maps: key -> RowRef | RowRefList | AsofRowRefs
    blocks_nullmaps,     \* data->blocks_nullmaps: <<block number, mask>>
    used_flags,          \* JoinUsedFlags: [need_flags, flags]
    phase,               \* the caller's pipeline: "build", "probe", "scan"
    left_block,          \* the left block of the last joinBlock call
    joined,              \* the block that call produced: [left, right]
    emitted,             \* per RowRef, how often the probes have emitted it
    scanner,             \* NotJoinedHash: [max_block_size, position, nulls_position, done]
    non_joined,          \* the blocks returned by NotJoinedHash::fillColumns
    not_processed,       \* the cross join continuation (NotProcessedCrossJoin)
    chunks,              \* the blocks the cross join has produced for left_block
    workers,             \* the concurrent probers and their place in joinRightColumns
    other,               \* a second engine that shares the data: its own used flags,
                         \* and whether it has probed since it took the data
    type,                \* data->type: "CROSS", "DICT", "EMPTY" or "hashed" (a key method);
                         \* the key method itself where ChooseMethod has chosen it
    storage_join_lock,   \* whether storage_join_lock holds a mutex
    returned,            \* the last addJoinedBlock call: its arguments and what it
                         \* returned or threw
    data_empty,          \* data->empty: no stored block has had a row
    right_table_keys,    \* the types of the right key columns, in key order
    sample_block_with_columns_to_add,   \* column name -> type of the added columns
    join_get,            \* the last joinGet or joinGetCheckAndGetReturnType call
    thrown,              \* what the constructor threw: [code, check]
    key_columns,         \* the right key columns the constructor extracts, in key order
    key_sizes            \* HashJoin::key_sizes

vars == <<table_join, any_take_last_row, blocks, maps, blocks_nullmaps, used_flags,
          phase, left_block, joined, emitted, scanner, non_joined, not_processed,
          chunks, workers, other, type, storage_join_lock, returned, data_empty,
          right_table_keys, sample_block_with_columns_to_add, join_get, thrown,
          key_columns, key_sizes>>

sample == <<right_table_keys, sample_block_with_columns_to_add>>
key_vars == <<key_columns, key_sizes>>
config == <<table_join, any_take_last_row, type, storage_join_lock, sample, thrown, key_vars>>
right_data == <<blocks, maps, blocks_nullmaps, data_empty>>
probe_vars == <<left_block, joined, emitted>>
scan_vars == <<scanner, non_joined>>
cross_vars == <<not_processed, chunks>>

-----------------------------------------------------------------------------
(* Bounds of the model. *)

MaxKey == 2
MaxRows == 2
MaxBlocks == 2
MaxLeftRows == 2
MaxAsof == 3
MaxBlockSize == 2
MaxJoinedBlockRows == 3
MaxWorkers == 2
MaxKeyColumns == 2
EmitCap == 2

(* The combined null map of the key columns marks a row whose key has a NULL
   component; such a row carries the key NULL. *)
NULL == 0

Keys == 1..MaxKey

Kinds == {"Left", "Inner", "Right", "Full"}
Strictnesses == {"RightAny", "Any", "All", "Asof", "Semi", "Anti"}
Inequalities == {"Less", "LessOrEquals", "Greater", "GreaterOrEquals"}

(* The row of default values appended for a left row without a match. *)
Default == <<0, 0>>

-----------------------------------------------------------------------------
(* Sequences. *)

RECURSIVE SeqSum(_)
SeqSum(s) == IF s = <<>> THEN 0 ELSE Head(s) + SeqSum(Tail(s))

SeqsUpTo(S, n) == UNION {[1..m -> S] : m \in 0..n}

Repeat(x, n) == [j \in 1..n |-> x]

Count(s, x) == Cardinality({j \in DOMAIN s : s[j] = x})

RECURSIVE Flatten(_)
Flatten(ss) == IF ss = <<>> THEN <<>> ELSE Head(ss) \o Flatten(Tail(ss))

-----------------------------------------------------------------------------
(* joinDispatch.h: the map and the flags of each (kind, strictness). *)

MapGetterMap(KIND, STRICTNESS) ==
    CASE STRICTNESS = "Asof" -> "MapsAsof"
      [] STRICTNESS = "RightAny" -> "MapsOne"
      [] STRICTNESS = "All" -> "MapsAll"
      [] KIND = "Right" -> "MapsAll"
      [] STRICTNESS = "Any" /\ KIND = "Full" -> "MapsAll"
      [] OTHER -> "MapsOne"

MapGetterFlagged(KIND, STRICTNESS) ==
    CASE STRICTNESS = "Asof" -> FALSE
      [] STRICTNESS = "Any" -> KIND \in {"Inner", "Right", "Full"}
      [] STRICTNESS \in {"RightAny", "All"} -> KIND \in {"Right", "Full"}
      [] OTHER -> KIND = "Right"

-----------------------------------------------------------------------------
(* JoinUsedFlags.  flags[off + 1] is the flag of the slot with offset off. *)

(* The hash table's buffer: the slot of key k has offset k, offset 0 is the
   zero storage. *)
getBufferSizeInCells == MaxKey

offsetInternal(k) == k

(* The vector has no flag for the last cell. *)
reinit_Short(uf, KIND, STRICTNESS, size) ==
    IF MapGetterFlagged(KIND, STRICTNESS)
    THEN [need_flags |-> TRUE, flags |-> Repeat(FALSE, size - 1)]
    ELSE uf

(* JoinUsedFlags::reinit *)
reinit(uf, KIND, STRICTNESS, size) ==
    IF MapGetterFlagged(KIND, STRICTNESS)
    THEN [need_flags |-> TRUE, flags |-> Repeat(FALSE, size)]
    ELSE uf

(* No flag is ever stored. *)
setUsed_Never(uf, need_flags, i) == uf

(* JoinUsedFlags::setUsed *)
setUsed(uf, need_flags, i) ==
    IF need_flags THEN [uf EXCEPT !.flags[i + 1] = TRUE] ELSE uf

getUsed(uf, need_flags, i) ==
    IF need_flags THEN uf.flags[i + 1] ELSE TRUE

getUsedSafe(uf, i) ==
    IF uf.flags = <<>> THEN ~uf.need_flags ELSE uf.flags[i + 1]

(* setUsedOnce<true>: flags[i].load(relaxed), the fast check. *)
loadRelaxed(uf, i) == uf.flags[i + 1]

(* A test and a store that are not one atomic step: after the fast check saw
   false the flag is stored and the call reports success. *)
compareExchangeStrong_Store(uf, i) ==
    [ok |-> TRUE, uf |-> [uf EXCEPT !.flags[i + 1] = TRUE]]

(* The exchange stores the negation of the flag it finds. *)
compareExchangeStrong_Flip(uf, i) ==
    [ok |-> ~uf.flags[i + 1], uf |-> [uf EXCEPT !.flags[i + 1] = ~@]]

(* setUsedOnce<true>: flags[i].compare_exchange_strong(expected = false, true):
   whether it stored, and the flags after it. *)
compareExchangeStrong(uf, i) ==
    [ok |-> ~uf.flags[i + 1], uf |-> [uf EXCEPT !.flags[i + 1] = TRUE]]

(* The flag is tested but never set. *)
setUsedOnce_NoSet(uf, need_flags, i) ==
    [ok |-> ~need_flags \/ ~loadRelaxed(uf, i), uf |-> uf]

(* The flag is set but never tested: every call reports success. *)
setUsedOnce_NoTest(uf, need_flags, i) ==
    [ok |-> TRUE, uf |-> setUsed(uf, need_flags, i)]

(* setUsedOnce run without interruption: the result, and the flags after it. *)
setUsedOnce(uf, need_flags, i) ==
    IF ~need_flags THEN [ok |-> TRUE, uf |-> uf]
    ELSE IF loadRelaxed(uf, i) THEN [ok |-> FALSE, uf |-> uf]
    ELSE compareExchangeStrong(uf, i)

-----------------------------------------------------------------------------
(* Inserter: the three ways a row enters the hash table. *)

(* Every row replaces the RowRef of its key. *)
insertOne_Overwrite(map, k, ref) ==
    [x \in DOMAIN map \cup {k} |-> IF x = k THEN ref ELSE map[x]]

(* Inserter::insertOne *)
insertOne(map, k, ref) ==
    IF k \notin DOMAIN map \/ any_take_last_row
    THEN [x \in DOMAIN map \cup {k} |-> IF x = k THEN ref ELSE map[x]]
    ELSE map

(* A later row of a key goes to the front of its chain. *)
insertAll_Prepend(map, k, ref) ==
    IF k \notin DOMAIN map
    THEN [x \in DOMAIN map \cup {k} |-> IF x = k THEN <<ref>> ELSE map[x]]
    ELSE [map EXCEPT ![k] = <<ref>> \o @]

(* A chain that is never extended: only the first row of a key is kept. *)
insertAll_NoChain(map, k, ref) ==
    IF k \notin DOMAIN map
    THEN [x \in DOMAIN map \cup {k} |-> IF x = k THEN <<ref>> ELSE map[x]]
    ELSE map

insertAll(map, k, ref) ==
    IF k \notin DOMAIN map
    THEN [x \in DOMAIN map \cup {k} |-> IF x = k THEN <<ref>> ELSE map[x]]
    ELSE [map EXCEPT ![k] = Append(@, ref)]

(* AsofRowRefs::insert: the entries <<value, RowRef>> of a key, kept ordered by
   value (equal values in insertion order). *)
AsofInsert(series, t, ref) ==
    LET n == Cardinality({j \in DOMAIN series : series[j][1] <= t})
    IN  SubSeq(series, 1, n) \o <<(<<t, ref>>)>> \o SubSeq(series, n + 1, Len(series))

(* Only the first row of a key enters its series. *)
insertAsof_KeepFirst(map, k, t, ref) ==
    IF k \notin DOMAIN map
    THEN [x \in DOMAIN map \cup {k} |-> IF x = k THEN AsofInsert(<<>>, t, ref) ELSE map[x]]
    ELSE map

insertAsof(map, k, t, ref) ==
    IF k \notin DOMAIN map
    THEN [x \in DOMAIN map \cup {k} |-> IF x = k THEN AsofInsert(<<>>, t, ref) ELSE map[x]]
    ELSE [map EXCEPT ![k] = AsofInsert(@, t, ref)]

(* No key column is taken for nullable: the null map is all zeroes. *)
NullMap_NotNullable(block) == [i \in DOMAIN block |-> FALSE]

(* extractNestedColumnsAndNullMap: the null map of the key columns of a block. *)
NullMap(block) == [i \in DOMAIN block |-> block[i].k = NULL]

(* insertFromBlockImplTypeCase: rows i..rows of the block, in order. *)
RECURSIVE insertFromBlockImplTypeCase(_, _, _, _, _, _)
insertFromBlockImplTypeCase(STRICTNESS, mapType, map, block, bn, i) ==
    IF i > Len(block) THEN map
    ELSE LET row == block[i]
             skip == NullMap(block)[i] \/ (table_join.mask_right /\ ~row.m)
             next == IF skip THEN map
                     ELSE IF STRICTNESS = "Asof" THEN insertAsof(map, row.k, row.t, <<bn, i>>)
                     ELSE IF mapType = "MapsOne" THEN insertOne(map, row.k, <<bn, i>>)
                     ELSE insertAll(map, row.k, <<bn, i>>)
         IN  insertFromBlockImplTypeCase(STRICTNESS, mapType, next, block, bn, i + 1)

-----------------------------------------------------------------------------
(* HashJoin::addJoinedBlock. *)

isRightOrFull(KIND) == KIND \in {"Right", "Full"}

(* The rows with NULL keys are saved for FULL only. *)
save_nullmap_FullOnly(block) ==
    table_join.kind = "Full" /\ \E i \in DOMAIN block : block[i].k = NULL

save_nullmap(block) ==
    isRightOrFull(table_join.kind) /\ \E i \in DOMAIN block : NullMap(block)[i]

(* Every row that fails the right ON condition is saved, the rows the null
   map saves too. *)
not_joined_map_SaveTwice(block) == [i \in DOMAIN block |-> ~block[i].m]

(* The rows that fail the right ON condition and are not saved for a NULL key. *)
not_joined_map(block) ==
    [i \in DOMAIN block |->
        ~block[i].m /\ ~(save_nullmap(block) /\ NullMap(block)[i])]

(* HashJoin::empty, HashJoin::overDictionary *)
empty == type = "EMPTY"

(* The engine is never taken for one over a dictionary. *)
overDictionary_Never == FALSE

overDictionary == type = "DICT"

(* The bytes Block::bytes and the table count for a row or a cell. *)
RowBytes == 2

(* The rows one slot of the table holds. *)
slotRows(mapType, mapped) == IF mapType = "MapsOne" THEN 1 ELSE Len(mapped)

(* map.getTotalRowCount(data->type): the rows the table holds. *)
mapTotalRowCount(mapType, map) ==
    SeqSum([k \in 1..getBufferSizeInCells |->
               IF k \in DOMAIN map THEN slotRows(mapType, map[k]) ELSE 0])

(* map.getTotalByteCountImpl(data->type): the bytes of the table's cells. *)
mapTotalByteCount(mapType, map) == RowBytes * Cardinality(DOMAIN map)

(* data->pool.size(): insertAll takes the entries that extend a chain from the
   pool. *)
poolSize(mapType, map) ==
    IF mapType = "MapsAll"
    THEN SeqSum([k \in 1..getBufferSizeInCells |->
                    IF k \in DOMAIN map THEN Len(map[k]) - 1 ELSE 0])
    ELSE 0

(* The counts are taken before the block is stored. *)
getTotalRowCount_Before(bl, mp) ==
    IF type = "CROSS" THEN SeqSum([n \in DOMAIN blocks |-> Len(blocks[n])])
    ELSE IF type # "DICT"
    THEN mapTotalRowCount(MapGetterMap(table_join.kind, table_join.strictness), maps)
    ELSE 0

(* HashJoin::getTotalRowCount over the stored blocks bl and the maps mp *)
getTotalRowCount(bl, mp) ==
    IF type = "CROSS" THEN SeqSum([n \in DOMAIN bl |-> Len(bl[n])])
    ELSE IF type # "DICT"
    THEN mapTotalRowCount(MapGetterMap(table_join.kind, table_join.strictness), mp)
    ELSE 0

(* HashJoin::getTotalByteCount *)
getTotalByteCount(bl, mp) ==
    IF type = "CROSS" THEN SeqSum([n \in DOMAIN bl |-> RowBytes * Len(bl[n])])
    ELSE IF type # "DICT"
    THEN mapTotalByteCount(MapGetterMap(table_join.kind, table_join.strictness), mp)
         + poolSize(MapGetterMap(table_join.kind, table_join.strictness), mp)
    ELSE 0

(* table_join->sizeLimits().check(total_rows, total_bytes, ...): false when a
   limit that is set is exceeded; a limit of 0 is not set. *)
sizeLimitsCheck(total_rows, total_bytes) ==
    /\ ~(table_join.size_limits.max_rows # 0 /\ total_rows > table_join.size_limits.max_rows)
    /\ ~(table_join.size_limits.max_bytes # 0
            /\ total_bytes > table_join.size_limits.max_bytes)

(* The block is stored before the lock is tested. *)
addJoinedBlock_StoreThenLock(block, too_many_rows, check_limits) ==
    /\ blocks' = Append(blocks, block)
    /\ data_empty' = (data_empty /\ Len(block) = 0)
    /\ UNCHANGED <<maps, blocks_nullmaps, used_flags>>
    /\ returned' = [value |-> IF storage_join_lock THEN "LOGICAL_ERROR" ELSE "true",
                    check_limits |-> check_limits, too_many_rows |-> too_many_rows,
                    locked |-> storage_join_lock]

(* A block that takes the engine over its limits is not kept: the call
   returns false and leaves the data as it found them. *)
addJoinedBlock_RollBack(block, too_many_rows, check_limits) ==
    LET bn == Len(blocks) + 1
        KIND == table_join.kind
        STRICTNESS == table_join.strictness
        bl == Append(blocks, block)
        mp == IF KIND # "Cross"
              THEN insertFromBlockImplTypeCase(
                       STRICTNESS, MapGetterMap(KIND, STRICTNESS), maps, block, bn, 1)
              ELSE maps
        stash1 == IF save_nullmap(block)
                  THEN Append(blocks_nullmaps, <<bn, NullMap(block)>>)
                  ELSE blocks_nullmaps
        stash2 == IF isRightOrFull(KIND) /\ table_join.mask_right
                  THEN Append(stash1, <<bn, not_joined_map(block)>>)
                  ELSE stash1
        ok == ~check_limits
                  \/ sizeLimitsCheck(getTotalRowCount(bl, mp), getTotalByteCount(bl, mp))
        call == [value |-> "none", check_limits |-> check_limits,
                 too_many_rows |-> too_many_rows, locked |-> storage_join_lock]
    IN  IF empty \/ overDictionary \/ storage_join_lock
        THEN /\ returned' = [call EXCEPT !.value = "LOGICAL_ERROR"]
             /\ UNCHANGED <<right_data, used_flags>>
        ELSE IF too_many_rows
        THEN /\ returned' = [call EXCEPT !.value = "NOT_IMPLEMENTED"]
             /\ UNCHANGED <<right_data, used_flags>>
        ELSE IF ok
        THEN /\ blocks' = bl
             /\ maps' = mp
             /\ blocks_nullmaps' = stash2
             /\ data_empty' = (data_empty /\ Len(block) = 0)
             /\ used_flags' = IF KIND # "Cross"
                               THEN reinit(used_flags, KIND, STRICTNESS, getBufferSizeInCells + 1)
                               ELSE used_flags
             /\ returned' = [call EXCEPT !.value = "true"]
        ELSE /\ returned' = [call EXCEPT !.value = "false"]
             /\ UNCHANGED <<right_data, used_flags>>

(* too_many_rows: source_block.rows() > std::numeric_limits<RowRef::SizeT>::max();
   the rows of such a block are not represented. *)
addJoinedBlock(block, too_many_rows, check_limits) ==
    LET bn == Len(blocks) + 1
        KIND == table_join.kind
        STRICTNESS == table_join.strictness
        stash1 == IF save_nullmap(block)
                  THEN Append(blocks_nullmaps, <<bn, NullMap(block)>>)
                  ELSE blocks_nullmaps
        stash2 == IF isRightOrFull(KIND) /\ table_join.mask_right
                  THEN Append(stash1, <<bn, not_joined_map(block)>>)
                  ELSE stash1
        call == [value |-> "none", check_limits |-> check_limits,
                 too_many_rows |-> too_many_rows, locked |-> storage_join_lock]
    IN  IF empty \/ overDictionary
        THEN /\ returned' = [call EXCEPT !.value = "LOGICAL_ERROR"]
             /\ UNCHANGED <<right_data, used_flags>>
        ELSE IF too_many_rows
        THEN /\ returned' = [call EXCEPT !.value = "NOT_IMPLEMENTED"]
             /\ UNCHANGED <<right_data, used_flags>>
        ELSE IF storage_join_lock
        THEN /\ returned' = [call EXCEPT !.value = "LOGICAL_ERROR"]
             /\ UNCHANGED <<right_data, used_flags>>
        ELSE /\ blocks' = Append(blocks, block)
             /\ data_empty' = (data_empty /\ Len(block) = 0)
             /\ IF KIND # "Cross"
                THEN /\ maps' = insertFromBlockImplTypeCase(
                                    STRICTNESS, MapGetterMap(KIND, STRICTNESS), maps, block, bn, 1)
                     /\ used_flags' = reinit(used_flags, KIND, STRICTNESS,
                                             getBufferSizeInCells + 1)
                ELSE UNCHANGED <<maps, used_flags>>
             /\ blocks_nullmaps' = stash2
             /\ returned' =
                   [call EXCEPT !.value =
                       IF ~check_limits THEN "true"
                       ELSE IF sizeLimitsCheck(getTotalRowCount(blocks', maps'),
                                               getTotalByteCount(blocks', maps'))
                            THEN "true" ELSE "false"]

-----------------------------------------------------------------------------
(* AsofRowRefs::findAsof: the entry nearest to the left value t under the
   inequality, or Default when there is none. *)

AsofHolds(inequality, v, t) ==
    CASE inequality = "Less" -> v < t
      [] inequality = "LessOrEquals" -> v <= t
      [] inequality = "Greater" -> v > t
      [] inequality = "GreaterOrEquals" -> v >= t

findAsof(series, inequality, t) ==
    LET ok == {j \in DOMAIN series : AsofHolds(inequality, series[j][1], t)}
        pick == IF inequality \in {"Less", "LessOrEquals"}
                THEN CHOOSE j \in ok : \A x \in ok : x <= j
                ELSE CHOOSE j \in ok : \A x \in ok : x >= j
    IN  IF ok = {} THEN Default ELSE series[pick][2]

-----------------------------------------------------------------------------
(* AddedColumns: the right columns under construction, as the list of the
   RowRefs (or Default) appended, with the defaults appended lazily. *)

applyLazyDefaults(st) ==
    [st EXCEPT !.columns = @ \o Repeat(Default, st.lazy_defaults_count),
               !.lazy_defaults_count = 0]

appendFromBlock(st, has_defaults, ref) ==
    LET s1 == IF has_defaults THEN applyLazyDefaults(st) ELSE st
    IN  [s1 EXCEPT !.columns = Append(@, ref)]

appendDefaultRow(st) == [st EXCEPT !.lazy_defaults_count = @ + 1]

(* The offset is advanced by one for the whole chain. *)
addFoundRowAll_OneOffset(st, add_missing, mapped) ==
    LET s1 == IF add_missing THEN applyLazyDefaults(st) ELSE st
    IN  [s1 EXCEPT !.columns = @ \o mapped,
                   !.current_offset = @ + 1]

(* addFoundRowAll: the rows of the chain are appended, one offset each. *)
addFoundRowAll(st, add_missing, mapped) ==
    LET s1 == IF add_missing THEN applyLazyDefaults(st) ELSE st
    IN  [s1 EXCEPT !.columns = @ \o mapped,
                   !.current_offset = @ + Len(mapped)]

(* The default row is appended but the replication offset is not advanced. *)
addNotFoundRow_NoOffset(st, add_missing, need_offset) ==
    IF add_missing THEN appendDefaultRow(st) ELSE st

addNotFoundRow(st, add_missing, need_offset) ==
    IF add_missing
    THEN LET s1 == appendDefaultRow(st)
         IN  IF need_offset THEN [s1 EXCEPT !.current_offset = @ + 1] ELSE s1
    ELSE st

(* setUsed<need_filter>(filter, pos) *)
setUsedFilter(st, need_filter, pos) ==
    IF need_filter THEN [st EXCEPT !.filter[pos] = 1] ELSE st

-----------------------------------------------------------------------------
(* joinRightColumns. *)

add_missing(KIND, STRICTNESS) == KIND \in {"Left", "Full"} /\ STRICTNESS # "Semi"

need_replication(KIND, STRICTNESS) ==
    STRICTNESS = "All" \/ (STRICTNESS \in {"Any", "Semi"} /\ KIND = "Right")

(* The filter is built for INNER and RIGHT only. *)
need_filter_InnerRight(KIND, STRICTNESS) ==
    /\ ~need_replication(KIND, STRICTNESS)
    /\ KIND \in {"Inner", "Right"}

need_filter(KIND, STRICTNESS) ==
    /\ ~need_replication(KIND, STRICTNESS)
    /\ \/ KIND \in {"Inner", "Right"}
       \/ (STRICTNESS \in {"Semi", "Anti"} /\ KIND = "Left")

(* The combinations whose found branch arbitrates with setUsedOnce. *)
UsesSetUsedOnce(KIND, STRICTNESS) ==
    \/ STRICTNESS \in {"Any", "Semi"} /\ KIND = "Right"
    \/ STRICTNESS = "Any" /\ KIND = "Inner"

(* A left row that reaches findKey and finds its key. *)
isRowFiltered(row) == table_join.mask_left /\ ~row.m

isFound(map, row) == row.k # NULL /\ ~isRowFiltered(row) /\ row.k \in DOMAIN map

joinRightColumnsInit(KIND, STRICTNESS, nf, rows) ==
    [filter |-> IF nf THEN Repeat(0, rows) ELSE <<>>,
     offsets |-> IF need_replication(KIND, STRICTNESS) THEN Repeat(0, rows) ELSE <<>>,
     columns |-> <<>>,
     lazy_defaults_count |-> 0,
     current_offset |-> 0]

(* Every found branch emits the chain of a slot to its first prober only. *)
foundRow_FirstProber(KIND, STRICTNESS, nf, st, uf, row, i, once) ==
    IF uf.flags # <<>> /\ uf.flags[offsetInternal(row.k) + 1]
    THEN [st |-> st, uf |-> uf]
    ELSE [st |-> addFoundRowAll(setUsedFilter(st, nf, i), add_missing(KIND, STRICTNESS),
                                maps[row.k]),
          uf |-> setUsed(uf, MapGetterFlagged(KIND, STRICTNESS), offsetInternal(row.k))]

(* The found branch of the loop body for row i; uf are the flags before it and
   once the outcome [ok, uf] of setUsedOnce on the slot, for the branches that
   call it.  Gives the local state and the flags after the branch. *)
foundRow(KIND, STRICTNESS, nf, st, uf, row, i, once) ==
    LET need_flags == MapGetterFlagged(KIND, STRICTNESS)
        am == add_missing(KIND, STRICTNESS)
        nr == need_replication(KIND, STRICTNESS)
        mapped == maps[row.k]
        off == offsetInternal(row.k)
    IN  IF STRICTNESS = "Asof"
        THEN LET found == findAsof(mapped, table_join.asof_inequality, row.t)
             IN  IF found # Default
                 THEN [st |-> appendFromBlock(setUsedFilter(st, nf, i), am, found),
                       uf |-> setUsed(uf, need_flags, off)]
                 ELSE [st |-> addNotFoundRow(st, am, nr), uf |-> uf]
        ELSE IF STRICTNESS = "All"
        THEN [st |-> addFoundRowAll(setUsedFilter(st, nf, i), am, mapped),
              uf |-> setUsed(uf, need_flags, off)]
        ELSE IF STRICTNESS \in {"Any", "Semi"} /\ KIND = "Right"
        THEN [st |-> IF once.ok
                     THEN addFoundRowAll(setUsedFilter(st, nf, i), am, mapped)
                     ELSE st,
              uf |-> once.uf]
        ELSE IF STRICTNESS = "Any" /\ KIND = "Inner"
        THEN [st |-> IF once.ok
                     THEN appendFromBlock(setUsedFilter(st, nf, i), am, mapped)
                     ELSE st,
              uf |-> once.uf]
        ELSE IF STRICTNESS = "Any" /\ KIND = "Full"
        THEN [st |-> st, uf |-> uf]
        ELSE IF STRICTNESS = "Anti"
        THEN [st |-> st,
              uf |-> IF KIND = "Right" /\ need_flags THEN setUsed(uf, need_flags, off) ELSE uf]
        ELSE [st |-> appendFromBlock(setUsedFilter(st, nf, i), am, mapped),
              uf |-> setUsed(uf, need_flags, off)]

(* The not found branch of the loop body. *)
notFoundRow(KIND, STRICTNESS, nf, st, i) ==
    LET s1 == IF STRICTNESS = "Anti" /\ KIND = "Left" THEN setUsedFilter(st, nf, i) ELSE st
    IN  addNotFoundRow(s1, add_missing(KIND, STRICTNESS), need_replication(KIND, STRICTNESS))

(* The branch for a row the null map marks. *)
nullRow(KIND, STRICTNESS, st) ==
    addNotFoundRow(st, add_missing(KIND, STRICTNESS), need_replication(KIND, STRICTNESS))

(* The end of the loop body: offsets_to_replicate[i] = current_offset. *)
setOffset(KIND, STRICTNESS, st, i) ==
    IF need_replication(KIND, STRICTNESS)
    THEN [st EXCEPT !.offsets[i] = st.current_offset]
    ELSE st

(* One iteration of the loop for a row that finds its key, given the outcome
   of setUsedOnce. *)
foundIteration(KIND, STRICTNESS, nf, su, row, i, once) ==
    LET r == foundRow(KIND, STRICTNESS, nf, su.st, su.uf, row, i, once)
    IN  [st |-> setOffset(KIND, STRICTNESS, r.st, i), uf |-> r.uf]

(* One iteration of the loop, setUsedOnce running without interruption. *)
joinRightColumnsRow(KIND, STRICTNESS, nf, su, row, i) ==
    IF row.k = NULL
    THEN [st |-> setOffset(KIND, STRICTNESS, nullRow(KIND, STRICTNESS, su.st), i), uf |-> su.uf]
    ELSE IF isFound(maps, row)
    THEN foundIteration(KIND, STRICTNESS, nf, su, row, i,
             IF UsesSetUsedOnce(KIND, STRICTNESS)
             THEN setUsedOnce(su.uf, MapGetterFlagged(KIND, STRICTNESS), offsetInternal(row.k))
             ELSE [ok |-> FALSE, uf |-> su.uf])
    ELSE [st |-> setOffset(KIND, STRICTNESS, notFoundRow(KIND, STRICTNESS, nf, su.st, i), i),
          uf |-> su.uf]

RECURSIVE joinRightColumnsLoop(_, _, _, _, _, _)
joinRightColumnsLoop(KIND, STRICTNESS, nf, su, left, i) ==
    IF i > Len(left) THEN su
    ELSE joinRightColumnsLoop(KIND, STRICTNESS, nf,
             joinRightColumnsRow(KIND, STRICTNESS, nf, su, left[i], i), left, i + 1)

joinRightColumns(KIND, STRICTNESS, nf, uf, left) ==
    LET su == joinRightColumnsLoop(KIND, STRICTNESS, nf,
                  [st |-> joinRightColumnsInit(KIND, STRICTNESS, nf, Len(left)), uf |-> uf],
                  left, 1)
    IN  [st |-> applyLazyDefaults(su.st), uf |-> su.uf]

-----------------------------------------------------------------------------
(* HashJoin::joinBlockImpl: the left columns (as the left row numbers) after
   the filter or the replication, and the added right columns. *)

RECURSIVE filterColumn(_, _, _)
filterColumn(col, filter, i) ==
    IF i > Len(col) THEN <<>>
    ELSE (IF filter[i] = 1 THEN <<col[i]>> ELSE <<>>) \o filterColumn(col, filter, i + 1)

RECURSIVE replicate(_, _, _)
replicate(col, offsets, i) ==
    IF i > Len(col) THEN <<>>
    ELSE Repeat(col[i], offsets[i] - (IF i = 1 THEN 0 ELSE offsets[i - 1]))
         \o replicate(col, offsets, i + 1)

(* The block after joinRightColumns has left the local state st. *)
joinedBlock(KIND, STRICTNESS, st, left) ==
    LET existing == [i \in 1..Len(left) |-> i]
    IN  [left |-> IF need_filter(KIND, STRICTNESS) THEN filterColumn(existing, st.filter, 1)
                  ELSE IF need_replication(KIND, STRICTNESS)
                       THEN replicate(existing, st.offsets, 1)
                       ELSE existing,
         right |-> st.columns]

joinBlockImpl(KIND, STRICTNESS, uf, left) ==
    LET r == joinRightColumns(KIND, STRICTNESS, need_filter(KIND, STRICTNESS), uf, left)
        b == joinedBlock(KIND, STRICTNESS, r.st, left)
    IN  [left |-> b.left, right |-> b.right, uf |-> r.uf]

(* filterWithBlanks(src_column, filter): a default where the filter is 0. *)
filterWithBlanks(col, filter) ==
    [row \in 1..Len(filter) |-> IF filter[row] = 1 THEN col[row] ELSE NULL]

(* HashJoin::joinBlockImpl when the right key column is required: need_filter
   of the added columns holds, and the block gets a third part, the right key
   column made from the left key column. *)
joinBlockImplRightKeys(KIND, STRICTNESS, uf, left) ==
    LET r == joinRightColumns(KIND, STRICTNESS, TRUE, uf, left)
        b == joinedBlock(KIND, STRICTNESS, r.st, left)
        col == [i \in 1..Len(left) |-> left[i].k]
        thin == filterWithBlanks(col, r.st.filter)
    IN  [left |-> b.left, right |-> b.right,
         right_key |-> IF need_filter(KIND, STRICTNESS) THEN filterColumn(col, r.st.filter, 1)
                       ELSE IF need_replication(KIND, STRICTNESS)
                            THEN replicate(thin, r.st.offsets, 1)
                            ELSE thin,
         uf |-> r.uf]

-----------------------------------------------------------------------------
(* The inputs: descriptors, right blocks and left blocks. *)

TableJoin(KIND, STRICTNESS, inequality, mask_left, mask_right) ==
    [kind |-> KIND, strictness |-> STRICTNESS, asof_inequality |-> inequality,
     mask_left |-> mask_left, mask_right |-> mask_right, max_joined_block_rows |-> 0,
     size_limits |-> [max_rows |-> 0, max_bytes |-> 0], dictionary_reader |-> FALSE]

RowSet(keys, STRICTNESS, mask) ==
    [k : keys,
     t : IF STRICTNESS = "Asof" THEN 1..MaxAsof ELSE {0},
     m : IF mask THEN BOOLEAN ELSE {TRUE}]

(* A cross join has no key columns: all its rows carry the same key.  The
   series of an ASOF join are built for one key and probed with that key and
   with a key that is not stored; the rows with a NULL key are exercised
   under the other strictnesses. *)
LeftKeys ==
    IF table_join.kind = "Cross" THEN {1}
    ELSE IF table_join.strictness = "Asof" THEN Keys
    ELSE {NULL} \cup Keys

RightKeys ==
    IF table_join.kind = "Cross" \/ table_join.strictness = "Asof" THEN {1}
    ELSE {NULL} \cup Keys

RightBlocks ==
    SeqsUpTo(RowSet(RightKeys, table_join.strictness, table_join.mask_right), MaxRows)

LeftBlocks ==
    SeqsUpTo(RowSet(LeftKeys, table_join.strictness, table_join.mask_left), MaxLeftRows)

RowRefs == {<<b, r>> : b \in 1..MaxBlocks, r \in 1..MaxRows}

StoredRefs == {ref \in RowRefs : ref[1] <= Len(blocks) /\ ref[2] <= Len(blocks[ref[1]])}

StoredRow(ref) == blocks[ref[1]][ref[2]]

NoScanner == [max_block_size |-> 0, position |-> 0, nulls_position |-> 0, done |-> FALSE]

(* ExtraBlockPtr not_processed when it is null. *)
NoContinuation == [set |-> FALSE, block |-> <<>>, left_position |-> 0, right_block |-> 0]

(* A second HashJoin before reuseJoinedData. *)
(* HashJoin::chooseMethod: Type::CROSS without key columns, else a key method. *)
chooseMethod(KIND) == IF KIND = "Cross" THEN "CROSS" ELSE "hashed"

(* The constructor has returned. *)
NoException == [code |-> "none", check |-> ""]

Exception(code, check) == [code |-> code, check |-> check]

(* The key columns are counted before the join kind is looked at. *)
HashJoin_KeysFirst(d, keys) ==
    IF d.dictionary_reader THEN [type |-> "DICT", thrown |-> NoException]
    ELSE IF d.strictness = "Asof"
    THEN IF Len(keys) <= 1
         THEN [type |-> "EMPTY", thrown |-> Exception("SYNTAX_ERROR", "key_columns")]
         ELSE IF d.kind \notin {"Left", "Inner"}
         THEN [type |-> "EMPTY", thrown |-> Exception("NOT_IMPLEMENTED", "kind")]
         ELSE IF keys[Len(keys)].nullable
         THEN [type |-> "EMPTY", thrown |-> Exception("NOT_IMPLEMENTED", "nullable")]
         ELSE [type |-> chooseMethod(d.kind), thrown |-> NoException]
    ELSE [type |-> chooseMethod(d.kind), thrown |-> NoException]

(* HashJoin::HashJoin from the dictionary reader on: data->type after it and
   what it threw. keys are the types of the right key columns, the asof
   column last; the asof column has a type AsofRowRefs::getTypeSize knows. *)
HashJoin(d, keys) ==
    IF d.dictionary_reader THEN [type |-> "DICT", thrown |-> NoException]
    ELSE IF d.strictness = "Asof"
    THEN IF d.kind \notin {"Left", "Inner"}
         THEN [type |-> "EMPTY", thrown |-> Exception("NOT_IMPLEMENTED", "kind")]
         ELSE IF Len(keys) <= 1
         THEN [type |-> "EMPTY", thrown |-> Exception("SYNTAX_ERROR", "key_columns")]
         ELSE IF keys[Len(keys)].nullable
         THEN [type |-> "EMPTY", thrown |-> Exception("NOT_IMPLEMENTED", "nullable")]
         ELSE [type |-> chooseMethod(d.kind), thrown |-> NoException]
    ELSE [type |-> chooseMethod(d.kind), thrown |-> NoException]

(* A key column: its class, and sizeOfValueIfFixed (0 when not fixed). *)
Column(class, size) == [class |-> class, size |-> size]

isNumeric(column) == column.class = "ColumnVector"

isFixedAndContiguous(column) == column.class \in {"ColumnVector", "ColumnFixedString"}

sizeOfValueIfFixed(column) == column.size

(* typeid_cast<ColumnString>, or a ColumnConst over a ColumnString. *)
isColumnString(column) == column.class \in {"ColumnString", "ColumnConst(ColumnString)"}

(* key_sizes after the loop: the sizes up to the first column that is not
   fixed and contiguous, zeros (from resize) behind it. *)
keySizes(columns) ==
    [j \in 1..Len(columns) |->
        IF \A i \in 1..j : isFixedAndContiguous(columns[i])
        THEN sizeOfValueIfFixed(columns[j]) ELSE 0]

(* The single fixed string is looked for before the keys are packed. *)
chooseMethodKeys_FixedStringFirst(columns) ==
    LET keys_size == Len(columns)
        all_fixed == \A j \in 1..keys_size : isFixedAndContiguous(columns[j])
        keys_bytes == SeqSum(keySizes(columns))
        method(t) == [type |-> t, key_sizes |-> keySizes(columns), thrown |-> NoException]
    IN  IF keys_size = 0 THEN [type |-> "CROSS", key_sizes |-> <<>>, thrown |-> NoException]
        ELSE IF keys_size = 1 /\ isNumeric(columns[1])
        THEN CASE sizeOfValueIfFixed(columns[1]) = 1 -> method("key8")
               [] sizeOfValueIfFixed(columns[1]) = 2 -> method("key16")
               [] sizeOfValueIfFixed(columns[1]) = 4 -> method("key32")
               [] sizeOfValueIfFixed(columns[1]) = 8 -> method("key64")
               [] sizeOfValueIfFixed(columns[1]) = 16 -> method("keys128")
               [] sizeOfValueIfFixed(columns[1]) = 32 -> method("keys256")
               [] OTHER -> [type |-> "EMPTY", key_sizes |-> keySizes(columns),
                            thrown |-> Exception("LOGICAL_ERROR", "sizeOfField")]
        ELSE IF keys_size = 1 /\ columns[1].class = "ColumnFixedString"
        THEN method("key_fixed_string")
        ELSE IF all_fixed /\ keys_bytes <= 16 THEN method("keys128")
        ELSE IF all_fixed /\ keys_bytes <= 32 THEN method("keys256")
        ELSE IF keys_size = 1 /\ isColumnString(columns[1]) THEN method("key_string")
        ELSE method("hashed")

(* HashJoin::chooseMethod(key_columns, key_sizes): the Type it returns, the
   key_sizes it leaves and what it throws. *)
chooseMethodKeys(columns) ==
    LET keys_size == Len(columns)
        all_fixed == \A j \in 1..keys_size : isFixedAndContiguous(columns[j])
        keys_bytes == SeqSum(keySizes(columns))
        method(t) == [type |-> t, key_sizes |-> keySizes(columns), thrown |-> NoException]
    IN  IF keys_size = 0 THEN [type |-> "CROSS", key_sizes |-> <<>>, thrown |-> NoException]
        ELSE IF keys_size = 1 /\ isNumeric(columns[1])
        THEN CASE sizeOfValueIfFixed(columns[1]) = 1 -> method("key8")
               [] sizeOfValueIfFixed(columns[1]) = 2 -> method("key16")
               [] sizeOfValueIfFixed(columns[1]) = 4 -> method("key32")
               [] sizeOfValueIfFixed(columns[1]) = 8 -> method("key64")
               [] sizeOfValueIfFixed(columns[1]) = 16 -> method("keys128")
               [] sizeOfValueIfFixed(columns[1]) = 32 -> method("keys256")
               [] OTHER -> [type |-> "EMPTY", key_sizes |-> keySizes(columns),
                            thrown |-> Exception("LOGICAL_ERROR", "sizeOfField")]
        ELSE IF all_fixed /\ keys_bytes <= 16 THEN method("keys128")
        ELSE IF all_fixed /\ keys_bytes <= 32 THEN method("keys256")
        ELSE IF keys_size = 1 /\ isColumnString(columns[1]) THEN method("key_string")
        ELSE IF keys_size = 1 /\ columns[1].class = "ColumnFixedString"
        THEN method("key_fixed_string")
        ELSE method("hashed")

(* key_columns.pop_back() *)
pop_back(seq) == SubSeq(seq, 1, Len(seq) - 1)

(* The key getter is made of all the key columns, the asof column too. *)
createKeyGetter_AllKeys(columns, sizes, is_asof_join) ==
    [key_columns |-> columns, key_sizes |-> sizes]

(* createKeyGetter<KeyGetter, is_asof_join>: the columns and the sizes the
   key getter hashes and compares. *)
createKeyGetter(columns, sizes, is_asof_join) ==
    IF is_asof_join
    THEN [key_columns |-> pop_back(columns), key_sizes |-> pop_back(sizes)]
    ELSE [key_columns |-> columns, key_sizes |-> sizes]

(* AsofRowRefs::getTypeSize: the byte width of the asof column. *)
getTypeSize(column) == sizeOfValueIfFixed(column)

(* HashJoin::HashJoin, the choice of the method: the Type passed to init,
   key_sizes after it and what is thrown.  types and columns are the types
   and the columns of the right keys. *)
HashJoinKeys(d, types, columns) ==
    LET c == HashJoin(d, types)
        failed(e) == [type |-> "EMPTY", key_sizes |-> <<>>, thrown |-> e]
    IN  IF c.thrown # NoException THEN failed(c.thrown)
        ELSE IF d.dictionary_reader
        THEN LET m == chooseMethodKeys(columns)
             IN  IF m.thrown # NoException THEN failed(m.thrown)
                 ELSE [m EXCEPT !.type = "DICT"]
        ELSE IF d.strictness = "Asof"
        THEN LET asof_size == getTypeSize(columns[Len(columns)])
                 m == chooseMethodKeys(pop_back(columns))
             IN  IF m.thrown # NoException THEN failed(m.thrown)
                 ELSE [m EXCEPT !.key_sizes = Append(@, asof_size)]
        ELSE LET m == chooseMethodKeys(columns)
             IN  IF m.thrown # NoException THEN failed(m.thrown) ELSE m

(* JoinCommon::extractKeysForJoin: the column of each key type. *)
extractKeysForJoin(types) ==
    [j \in 1..Len(types) |->
        IF types[j].nullable THEN Column("ColumnNullable", 0)
        ELSE IF types[j].base = "String" THEN Column("ColumnString", 0)
        ELSE Column("ColumnVector", 1)]

(* No addJoinedBlock call yet. *)
NoCall == [value |-> "none", check_limits |-> TRUE, too_many_rows |-> FALSE, locked |-> FALSE]

NoOther ==
    [shared |-> FALSE, probed |-> FALSE,
     used_flags |-> [need_flags |-> FALSE, flags |-> <<>>]]

(* A data type: its name without wrappers, and the Nullable and LowCardinality
   wrappers. *)
DataType(base, nullable, low_cardinality) ==
    [base |-> base, nullable |-> nullable, low_cardinality |-> low_cardinality]

NoType == DataType("", FALSE, FALSE)

(* No joinGet call yet. *)
NoJoinGet ==
    [call |-> "none", value |-> "none", touched |-> FALSE, keys |-> <<>>, column |-> <<>>,
     data_types |-> <<>>, column_name |-> "", or_null |-> FALSE, key |-> 0, type |-> NoType]

(* The key columns of the rows of the model: none for a cross join, a nullable
   key for the others, and the ASOF column behind it. *)
DefaultRightKeys(d) ==
    IF d.kind = "Cross" THEN <<>>
    ELSE IF d.strictness = "Asof"
    THEN <<DataType("UInt8", TRUE, FALSE), DataType("UInt8", FALSE, FALSE)>>
    ELSE <<DataType("UInt8", TRUE, FALSE)>>

(* One added column. *)
DefaultColumns == [name \in {"v"} |-> DataType("UInt8", FALSE, FALSE)]

(* The members of the engine but for data->type and the right sample. *)
InitMembers(descriptors, take_last, counted) ==
    /\ table_join \in descriptors
    /\ any_take_last_row \in take_last
    /\ blocks = <<>>
    /\ maps = <<>>
    /\ blocks_nullmaps = <<>>
    /\ data_empty = TRUE
    /\ used_flags = [need_flags |-> FALSE, flags |-> <<>>]
    /\ left_block = <<>>
    /\ joined = [left |-> <<>>, right |-> <<>>]
    /\ emitted = [ref \in counted |-> 0]
    /\ scanner = NoScanner
    /\ non_joined = <<>>
    /\ not_processed = NoContinuation
    /\ chunks = <<>>
    /\ workers = <<>>
    /\ other = NoOther
    /\ storage_join_lock = FALSE
    /\ returned = NoCall
    /\ join_get = NoJoinGet

(* The engine after construction, but for the sample of the right table. *)
InitData(descriptors, take_last, counted) ==
    /\ InitMembers(descriptors, take_last, counted)
    /\ phase = "build"
    /\ type = IF table_join.dictionary_reader THEN "DICT" ELSE chooseMethod(table_join.kind)
    /\ thrown = NoException

(* counted is the set of RowRefs whose emissions by the probes are counted. *)
InitWith(descriptors, take_last, counted) ==
    /\ InitData(descriptors, take_last, counted)
    /\ right_table_keys = DefaultRightKeys(table_join)
    /\ key_columns = extractKeysForJoin(right_table_keys)
    /\ key_sizes = HashJoinKeys(table_join, right_table_keys, key_columns).key_sizes
    /\ sample_block_with_columns_to_add = DefaultColumns

-----------------------------------------------------------------------------
(* The actions of the build and of the sequential probe. *)

(* The constructor runs on the descriptor and the right sample block. *)
Construct ==
    /\ phase = "new"
    /\ \E r \in {HashJoin(table_join, right_table_keys)} :
          /\ type' = r.type
          /\ thrown' = r.thrown
          /\ phase' = IF r.thrown = NoException THEN "build" ELSE "failed"
    /\ key_sizes' = HashJoinKeys(table_join, right_table_keys, key_columns).key_sizes
    /\ UNCHANGED <<table_join, any_take_last_row, storage_join_lock, sample, key_columns,
                   join_get, returned, other, right_data, used_flags, probe_vars,
                   scan_vars, cross_vars, workers>>

(* The constructor on key columns of every class: data->type is the method
   chooseMethod returns. *)
ChooseMethod ==
    /\ phase = "new"
    /\ \E r \in {HashJoinKeys(table_join, right_table_keys, key_columns)} :
          /\ type' = r.type
          /\ key_sizes' = r.key_sizes
          /\ thrown' = r.thrown
          /\ phase' = IF r.thrown = NoException THEN "build" ELSE "failed"
    /\ UNCHANGED <<table_join, any_take_last_row, storage_join_lock, sample, key_columns,
                   join_get, returned, other, right_data, used_flags, probe_vars,
                   scan_vars, cross_vars, workers>>

AddJoinedBlock ==
    /\ phase = "build"
    /\ Len(blocks) < MaxBlocks
    /\ \E block \in RightBlocks : addJoinedBlock(block, FALSE, TRUE)
    /\ UNCHANGED <<config, join_get, other, phase, probe_vars, scan_vars, cross_vars, workers>>

(* addJoinedBlock(block, false): the caller turns the limits off. *)
AddJoinedBlockNoLimits ==
    /\ phase = "build"
    /\ Len(blocks) < MaxBlocks
    /\ \E block \in RightBlocks : addJoinedBlock(block, FALSE, FALSE)
    /\ UNCHANGED <<config, join_get, other, phase, probe_vars, scan_vars, cross_vars, workers>>

(* addJoinedBlock of a block with more rows than RowRef::SizeT can number. *)
AddJoinedBlockTooManyRows ==
    /\ phase = "build"
    /\ \E check_limits \in BOOLEAN : addJoinedBlock(<<>>, TRUE, check_limits)
    /\ UNCHANGED <<config, join_get, other, phase, probe_vars, scan_vars, cross_vars, workers>>

(* HashJoin::setLock: a storage join locks the engine against updates. *)
SetLock ==
    /\ ~storage_join_lock
    /\ storage_join_lock' = TRUE
    /\ UNCHANGED <<table_join, any_take_last_row, type, sample, thrown, key_vars, join_get, returned, other,
                   right_data, used_flags, phase, probe_vars, scan_vars, cross_vars, workers>>

(* Any LEFT join answers joinGet. *)
is_valid_Left(KIND, STRICTNESS) == KIND = "Left"

(* HashJoin::joinGet: bool is_valid *)
is_valid(KIND, STRICTNESS) == STRICTNESS \in {"Any", "RightAny"} /\ KIND = "Left"

(* HashJoin::joinGet on a block of keys: the added column, a stored row or the
   default per key.  touched records that joinBlockImpl has read the table. *)
JoinGet ==
    /\ phase \in {"build", "probe"}
    /\ \E block \in LeftBlocks :
          IF ~is_valid(table_join.kind, table_join.strictness)
          THEN join_get' = [NoJoinGet EXCEPT !.call = "joinGet", !.keys = block,
                                             !.value = "INCOMPATIBLE_TYPE_OF_JOIN"]
          ELSE \E r \in {joinBlockImpl("Left", "Any", used_flags, block)} :
                  join_get' = [NoJoinGet EXCEPT !.call = "joinGet", !.keys = block,
                                                !.value = "column", !.touched = TRUE,
                                                !.column = r.right]
    /\ UNCHANGED <<config, returned, other, right_data, used_flags, phase, probe_vars,
                   scan_vars, cross_vars, workers>>

NextJoinGet == AddJoinedBlock \/ JoinGet

(* removeNullable(recursiveRemoveLowCardinality(type)) *)
removeWrappers(t) == DataType(t.base, FALSE, FALSE)

makeNullable(t) == [t EXCEPT !.nullable = TRUE]

(* The first key whose type differs from the type of the right key, or 0. *)
firstMismatch(data_types) ==
    LET differ == {i \in DOMAIN data_types :
                      removeWrappers(data_types[i]) # removeWrappers(right_table_keys[i])}
    IN  IF differ = {} THEN 0 ELSE CHOOSE i \in differ : \A j \in differ : i <= j

(* The column is looked up before the key types are compared. *)
joinGetCheckAndGetReturnType_ColumnFirst(data_types, column_name, or_null) ==
    IF Len(right_table_keys) # Len(data_types)
    THEN [value |-> "NUMBER_OF_ARGUMENTS_DOESNT_MATCH", key |-> 0, type |-> NoType]
    ELSE IF column_name \notin DOMAIN sample_block_with_columns_to_add
    THEN [value |-> "NO_SUCH_COLUMN_IN_TABLE", key |-> 0, type |-> NoType]
    ELSE IF firstMismatch(data_types) # 0
    THEN [value |-> "TYPE_MISMATCH", key |-> firstMismatch(data_types), type |-> NoType]
    ELSE [value |-> "type", key |-> 0,
          type |-> IF or_null THEN makeNullable(sample_block_with_columns_to_add[column_name])
                   ELSE sample_block_with_columns_to_add[column_name]]

(* HashJoin::joinGetCheckAndGetReturnType: the error thrown, with the key the
   message names, or the type returned. *)
joinGetCheckAndGetReturnType(data_types, column_name, or_null) ==
    IF Len(right_table_keys) # Len(data_types)
    THEN [value |-> "NUMBER_OF_ARGUMENTS_DOESNT_MATCH", key |-> 0, type |-> NoType]
    ELSE IF firstMismatch(data_types) # 0
    THEN [value |-> "TYPE_MISMATCH", key |-> firstMismatch(data_types), type |-> NoType]
    ELSE IF column_name \notin DOMAIN sample_block_with_columns_to_add
    THEN [value |-> "NO_SUCH_COLUMN_IN_TABLE", key |-> 0, type |-> NoType]
    ELSE [value |-> "type", key |-> 0,
          type |-> IF or_null THEN makeNullable(sample_block_with_columns_to_add[column_name])
                   ELSE sample_block_with_columns_to_add[column_name]]

(* The types of the model: two names, with and without the wrappers. *)
DataTypes == {DataType(base, nullable, lc) :
                 base \in {"UInt8", "String"}, nullable \in BOOLEAN, lc \in BOOLEAN}

(* The types of stored columns: removeLowCardinalityInplace has been applied. *)
StoredTypes == {t \in DataTypes : ~t.low_cardinality}

(* A const member without effect on the engine: one call per run is followed. *)
JoinGetCheckAndGetReturnType ==
    /\ join_get.call = "none"
    /\ \E data_types \in SeqsUpTo(DataTypes, MaxKeyColumns), column_name \in {"v", "w"},
          or_null \in BOOLEAN :
          \E r \in {joinGetCheckAndGetReturnType(data_types, column_name, or_null)} :
             join_get' = [NoJoinGet EXCEPT !.call = "joinGetCheckAndGetReturnType",
                              !.data_types = data_types, !.column_name = column_name,
                              !.or_null = or_null,
                              !.value = r.value, !.key = r.key, !.type = r.type]
    /\ UNCHANGED <<config, returned, other, right_data, used_flags, phase, probe_vars,
                   scan_vars, cross_vars, workers>>

NextJoinGetCheck == JoinGetCheckAndGetReturnType

NextAddBlock ==
    AddJoinedBlock \/ AddJoinedBlockNoLimits \/ AddJoinedBlockTooManyRows \/ SetLock

(* The probes' emissions, counted per RowRef up to EmitCap. *)
Emit(em, columns) ==
    [ref \in DOMAIN em |->
        IF em[ref] + Count(columns, ref) > EmitCap THEN EmitCap
        ELSE em[ref] + Count(columns, ref)]

(* The lookups insert the keys they do not find, as emplaceKey would. *)
findKeyMap_Emplace(map, left) ==
    LET new == {left[i].k : i \in DOMAIN left} \ ({NULL} \cup DOMAIN map)
    IN  [x \in DOMAIN map \cup new |->
            IF x \in DOMAIN map THEN map[x]
            ELSE IF MapGetterMap(table_join.kind, table_join.strictness) = "MapsOne"
                 THEN Default ELSE <<>>]

(* The table after key_getter.findKey(map, i, pool) has looked up the rows of
   a left block: the map is passed as const Map &. *)
findKeyMap(map, left) == map

JoinBlock ==
    /\ phase \in {"build", "probe"}
    /\ table_join.kind # "Cross"
    /\ \E left \in LeftBlocks :
          \E r \in {joinBlockImpl(table_join.kind, table_join.strictness, used_flags, left)} :
              /\ left_block' = left
              /\ joined' = [left |-> r.left, right |-> r.right]
              /\ used_flags' = r.uf
              /\ emitted' = Emit(emitted, r.right)
              /\ maps' = findKeyMap(maps, left)
    /\ phase' = "probe"
    /\ UNCHANGED <<config, join_get, returned, other, blocks, blocks_nullmaps, data_empty, scan_vars,
                   cross_vars, workers>>

NextProbe == AddJoinedBlock \/ JoinBlock

-----------------------------------------------------------------------------
(* NotJoinedHash: the scan of the right rows no probe has used. *)

(* Only the first row of a chain is added. *)
AdderNonJoined_First(mapType, mapped) ==
    CASE mapType = "MapsAsof" -> <<>>
      [] mapType = "MapsOne" -> <<mapped>>
      [] OTHER -> <<mapped[1]>>

(* AdderNonJoined::add: the rows of one table entry. *)
AdderNonJoined(mapType, mapped) ==
    CASE mapType = "MapsAsof" -> <<>>
      [] mapType = "MapsOne" -> <<mapped>>
      [] OTHER -> mapped

(* HashJoin::isUsed *)
isUsed(off) == getUsedSafe(used_flags, off)

(* fillColumns(map, columns): from the slot at pos on, until max_block_size rows
   are added; rows are the rows added so far. *)
RECURSIVE fillColumnsFromMap(_, _, _, _)
fillColumnsFromMap(mapType, max_block_size, pos, rows) ==
    IF pos > getBufferSizeInCells THEN [position |-> pos, rows |-> rows]
    ELSE IF pos \notin DOMAIN maps \/ isUsed(offsetInternal(pos))
    THEN fillColumnsFromMap(mapType, max_block_size, pos + 1, rows)
    ELSE LET added == rows \o AdderNonJoined(mapType, maps[pos])
         IN  IF Len(added) >= max_block_size
             THEN [position |-> pos + 1, rows |-> added]
             ELSE fillColumnsFromMap(mapType, max_block_size, pos + 1, added)

(* The rows of a stash entry whose mask bit is set, in row order. *)
RECURSIVE MaskedRows(_, _, _)
MaskedRows(bn, nullmap, row) ==
    IF row > Len(nullmap) THEN <<>>
    ELSE (IF nullmap[row] THEN <<(<<bn, row>>)>> ELSE <<>>) \o MaskedRows(bn, nullmap, row + 1)

RECURSIVE fillNullsFromBlocks(_, _, _)
fillNullsFromBlocks(max_block_size, np, rows) ==
    IF np > Len(blocks_nullmaps) \/ Len(rows) >= max_block_size
    THEN [nulls_position |-> np, rows |-> rows]
    ELSE fillNullsFromBlocks(max_block_size, np + 1,
             rows \o MaskedRows(blocks_nullmaps[np][1], blocks_nullmaps[np][2], 1))

fillColumns(sc) ==
    LET m == fillColumnsFromMap(MapGetterMap(table_join.kind, table_join.strictness),
                                sc.max_block_size, sc.position, <<>>)
        n == fillNullsFromBlocks(sc.max_block_size, sc.nulls_position, m.rows)
    IN  [position |-> m.position, nulls_position |-> n.nulls_position, rows |-> n.rows]

(* Every RIGHT and FULL join gets a scanner. *)
hasNonJoinedBlocks_RightOrFull(KIND, STRICTNESS) == isRightOrFull(KIND)

(* HashJoin::getNonJoinedBlocks: whether a scanner is returned. *)
hasNonJoinedBlocks(KIND, STRICTNESS) ==
    ~(STRICTNESS = "Asof" \/ STRICTNESS = "Semi" \/ ~isRightOrFull(KIND))

(* The call returns a NotJoinedHash at the start of the table and of the
   stash, or {} (NoScanner). *)
GetNonJoinedBlocks ==
    /\ phase \in {"build", "probe"}
    /\ IF hasNonJoinedBlocks(table_join.kind, table_join.strictness)
       THEN \E max_block_size \in 1..MaxBlockSize :
               scanner' = [max_block_size |-> max_block_size, position |-> 1,
                           nulls_position |-> 1, done |-> FALSE]
       ELSE scanner' = NoScanner
    /\ phase' = "scan"
    /\ UNCHANGED <<config, join_get, returned, other, right_data, used_flags, probe_vars, non_joined, cross_vars, workers>>

(* One call of fillColumns by the reader of the scanner, which stops at the
   first call that adds no row. *)
FillColumns ==
    /\ phase = "scan"
    /\ scanner # NoScanner
    /\ ~scanner.done
    /\ \E r \in {fillColumns(scanner)} :
           /\ scanner' = [scanner EXCEPT !.position = r.position,
                                         !.nulls_position = r.nulls_position,
                                         !.done = (r.rows = <<>>)]
           /\ non_joined' = IF r.rows = <<>> THEN non_joined ELSE Append(non_joined, r.rows)
    /\ UNCHANGED <<config, join_get, returned, other, right_data, used_flags, phase, probe_vars, cross_vars, workers>>

Next == AddJoinedBlock \/ JoinBlock \/ GetNonJoinedBlocks \/ FillColumns

-----------------------------------------------------------------------------
(* HashJoin::reuseJoinedData: a second engine of the same kind and strictness
   takes the data (blocks, maps, blocks_nullmaps) of this one and keeps used
   flags of its own. *)

(* The flags are shared with the data. *)
reuseJoinedData_SharedFlags(uf) == used_flags

(* The used flags of the second engine after reuseJoinedData. *)
reuseJoinedData(uf) ==
    IF table_join.kind # "Cross"
    THEN reinit(uf, table_join.kind, table_join.strictness, getBufferSizeInCells + 1)
    ELSE uf

ReuseJoinedData ==
    /\ phase \in {"build", "probe"}
    /\ table_join.kind # "Cross"
    /\ other' = [other EXCEPT !.shared = TRUE, !.probed = FALSE,
                               !.used_flags = reuseJoinedData(@)]
    /\ phase' = "probe"
    /\ UNCHANGED <<config, join_get, returned, right_data, used_flags, probe_vars, scan_vars, cross_vars, workers>>

(* joinBlock of the second engine: the shared maps, its own flags.  The block
   it returns to its caller leaves no trace in the engines. *)
JoinBlockOther ==
    /\ other.shared
    /\ \E left \in LeftBlocks :
          \E r \in {joinBlockImpl(table_join.kind, table_join.strictness, other.used_flags, left)} :
              other' = [other EXCEPT !.used_flags = r.uf, !.probed = TRUE]
    /\ UNCHANGED <<config, join_get, returned, right_data, used_flags, phase, probe_vars, scan_vars, cross_vars,
                   workers>>

NextReuse == AddJoinedBlock \/ JoinBlock \/ ReuseJoinedData \/ JoinBlockOther

-----------------------------------------------------------------------------
(* HashJoin::joinBlockImplCross.  A row of its output is <<left row, RowRef>>;
   left_row and left_position count from 0 as in the code, block_number from
   1. *)

(* The continuation keeps the block and resumes behind the block it stopped at. *)
continuation_SameBlock(block, left_row, block_number) ==
    [set |-> TRUE, block |-> block, left_position |-> left_row, right_block |-> block_number]

(* The continuation resumes the left row at its first right block. *)
continuation_FirstBlock(block, left_row, block_number) ==
    [set |-> TRUE, block |-> block, left_position |-> left_row, right_block |-> 0]

(* NotProcessedCrossJoin{{block}, left_row, block_number + 1} *)
continuation(block, left_row, block_number) ==
    [set |-> TRUE, block |-> block, left_position |-> left_row,
     right_block |-> block_number + 1]

(* The stored blocks are walked from the last to the first. *)
crossRightBlocks_Backwards(left_row, start_right_block, block_number) ==
    Flatten([n \in 1..Len(blocks) |->
        LET bn == Len(blocks) + 1 - n
        IN  IF bn < start_right_block THEN <<>>
            ELSE [r \in 1..Len(blocks[bn]) |-> <<left_row + 1, <<bn, r>>>>]])

(* The inner loop over data->blocks for one left row, from the block numbered
   block_number on: the rows inserted. *)
RECURSIVE crossRightBlocks(_, _, _)
crossRightBlocks(left_row, start_right_block, block_number) ==
    IF block_number > Len(blocks) THEN <<>>
    ELSE (IF block_number < start_right_block THEN <<>>
          ELSE [r \in 1..Len(blocks[block_number]) |-> <<left_row + 1, <<block_number, r>>>>])
         \o crossRightBlocks(left_row, start_right_block, block_number + 1)

(* The outer loop from left_row on; dst are the rows inserted so far (rows_added
   is their number). *)
RECURSIVE crossLeftRows(_, _, _, _)
crossLeftRows(block, left_row, start_right_block, dst) ==
    IF left_row >= Len(block) THEN [block |-> dst, not_processed |-> NoContinuation]
    ELSE LET added == dst \o crossRightBlocks(left_row, start_right_block, 1)
         IN  IF Len(added) > table_join.max_joined_block_rows
             THEN [block |-> added,
                   not_processed |-> continuation(block, left_row, Len(blocks))]
             ELSE crossLeftRows(block, left_row + 1, 0, added)

joinBlockImplCross(block, np) ==
    crossLeftRows(block,
                  IF np.set THEN np.left_position ELSE 0,
                  IF np.set THEN np.right_block ELSE 0,
                  <<>>)

(* joinBlock on a new left block. *)
JoinBlockCross ==
    /\ phase \in {"build", "probe"}
    /\ table_join.kind = "Cross"
    /\ ~not_processed.set
    /\ \E left \in LeftBlocks :
          \E r \in {joinBlockImplCross(left, NoContinuation)} :
              /\ left_block' = left
              /\ chunks' = <<r.block>>
              /\ not_processed' = r.not_processed
    /\ phase' = "probe"
    /\ UNCHANGED <<config, join_get, returned, other, right_data, used_flags, joined, emitted, scan_vars, workers>>

(* The caller re-enters joinBlock with the block of the continuation. *)
ResumeCross ==
    /\ phase = "probe"
    /\ table_join.kind = "Cross"
    /\ not_processed.set
    /\ \E r \in {joinBlockImplCross(not_processed.block, not_processed)} :
          /\ chunks' = Append(chunks, r.block)
          /\ not_processed' = r.not_processed
    /\ UNCHANGED <<config, join_get, returned, other, right_data, used_flags, phase, probe_vars, scan_vars, workers>>

NextCross == AddJoinedBlock \/ JoinBlockCross \/ ResumeCross

-----------------------------------------------------------------------------
(* Concurrent probers: each worker runs joinBlock on a left block of its own,
   one iteration of the loop of joinRightColumns per step; in an iteration
   that calls setUsedOnce the relaxed load and the compare-and-swap are
   separate steps.  once lists the <<slot, result>> of the worker's finished
   setUsedOnce calls. *)

NF == need_filter(table_join.kind, table_join.strictness)

ProbeStart ==
    /\ phase \in {"build", "probe"}
    /\ table_join.kind # "Cross"
    /\ Len(workers) < MaxWorkers
    /\ \E left \in LeftBlocks :
          workers' = Append(workers,
              [pc |-> "row", left |-> left, i |-> 1, once |-> <<>>,
               st |-> joinRightColumnsInit(table_join.kind, table_join.strictness, NF, Len(left)),
               joined |-> [left |-> <<>>, right |-> <<>>]])
    /\ phase' = "probe"
    /\ UNCHANGED <<config, join_get, returned, other, right_data, used_flags, probe_vars, scan_vars, cross_vars>>

(* The iteration of worker w up to its first access to the flags. *)
ProbeRow(w) ==
    LET me == workers[w]
        KIND == table_join.kind
        STRICTNESS == table_join.strictness
        row == me.left[me.i]
        off == offsetInternal(row.k)
        su == [st |-> me.st, uf |-> used_flags]
    IN  /\ me.pc = "row"
        /\ me.i <= Len(me.left)
        /\ IF isFound(maps, row) /\ UsesSetUsedOnce(KIND, STRICTNESS)
              /\ MapGetterFlagged(KIND, STRICTNESS)
           THEN IF loadRelaxed(used_flags, off)
                THEN \E r \in {foundIteration(KIND, STRICTNESS, NF, su, row, me.i,
                                              [ok |-> FALSE, uf |-> used_flags])} :
                        /\ workers' = [workers EXCEPT ![w].st = r.st, ![w].i = me.i + 1,
                                           ![w].once = Append(@, <<off, FALSE>>)]
                        /\ UNCHANGED used_flags
                ELSE /\ workers' = [workers EXCEPT ![w].pc = "cas"]
                     /\ UNCHANGED used_flags
           ELSE \E r \in {joinRightColumnsRow(KIND, STRICTNESS, NF, su, row, me.i)} :
                   /\ workers' = [workers EXCEPT ![w].st = r.st, ![w].i = me.i + 1]
                   /\ used_flags' = r.uf

(* The compare-and-swap of setUsedOnce and the rest of the iteration. *)
ProbeCas(w) ==
    LET me == workers[w]
        row == me.left[me.i]
        off == offsetInternal(row.k)
    IN  /\ me.pc = "cas"
        /\ \E once \in {compareExchangeStrong(used_flags, off)} :
           \E r \in {foundIteration(table_join.kind, table_join.strictness, NF,
                                    [st |-> me.st, uf |-> used_flags], row, me.i, once)} :
              /\ workers' = [workers EXCEPT ![w].st = r.st, ![w].i = me.i + 1, ![w].pc = "row",
                                 ![w].once = Append(@, <<off, once.ok>>)]
              /\ used_flags' = r.uf

(* After the loop: applyLazyDefaults, and joinBlockImpl builds the block. *)
ProbeFinish(w) ==
    LET me == workers[w]
    IN  /\ me.pc = "row"
        /\ me.i > Len(me.left)
        /\ \E st \in {applyLazyDefaults(me.st)} :
              workers' = [workers EXCEPT ![w].pc = "done", ![w].st = st,
                  ![w].joined = joinedBlock(table_join.kind, table_join.strictness, st, me.left)]
        /\ UNCHANGED used_flags

ProbeStep ==
    /\ \E w \in DOMAIN workers : ProbeRow(w) \/ ProbeCas(w) \/ ProbeFinish(w)
    /\ UNCHANGED <<config, join_get, returned, other, right_data, phase, probe_vars, scan_vars, cross_vars>>

NextConcurrent == AddJoinedBlock \/ ProbeStart \/ ProbeStep

(* getNonJoinedBlocks once every concurrent joinBlock call has returned. *)
GetNonJoinedBlocksAfterJoin ==
    /\ workers # <<>>
    /\ \A w \in DOMAIN workers : workers[w].pc = "done"
    /\ GetNonJoinedBlocks

NextConcurrentScan ==
    AddJoinedBlock \/ ProbeStart \/ ProbeStep \/ GetNonJoinedBlocksAfterJoin \/ FillColumns

-----------------------------------------------------------------------------
(* The specifications: one per group of (kind, strictness). *)

(* INNER ALL without ON-condition masks. *)
InitInnerAll == InitWith({TableJoin("Inner", "All", "Less", FALSE, FALSE)}, {FALSE}, {})

SpecInnerAll == InitInnerAll /\ [][NextProbe]_vars

(* LEFT ALL with an ON-condition mask on the left side. *)
InitLeftAll == InitWith({TableJoin("Left", "All", "Less", TRUE, FALSE)}, {FALSE}, {})

SpecLeftAll == InitLeftAll /\ [][NextProbe]_vars

(* RIGHT ALL without ON-condition masks, followed by the non-joined scan. *)
InitRightAll == InitWith({TableJoin("Right", "All", "Less", FALSE, FALSE)}, {FALSE}, RowRefs)

SpecRightAll == InitRightAll /\ [][Next]_vars

(* The combinations guarded by setUsedOnce, probed by concurrent workers. *)
InitConcurrent ==
    InitWith({TableJoin("Right", "Any", "Less", FALSE, FALSE),
              TableJoin("Right", "Semi", "Less", FALSE, FALSE),
              TableJoin("Inner", "Any", "Less", FALSE, FALSE)}, {FALSE}, {})

SpecConcurrent == InitConcurrent /\ [][NextConcurrent]_vars

(* The RIGHT and FULL combinations that keep used flags and have a non-joined
   scan, probed by concurrent workers and then scanned. *)
InitConcurrentScan ==
    InitWith({TableJoin(KIND, STRICTNESS, "Less", FALSE, FALSE) :
                 KIND \in {"Right", "Full"}, STRICTNESS \in {"Any", "All"}}
             \cup {TableJoin("Right", "Anti", "Less", FALSE, FALSE)}, {FALSE}, {})

SpecConcurrentScan == InitConcurrentScan /\ [][NextConcurrentScan]_vars

(* The ANY joins; the emissions of the right rows are counted under RIGHT ANY. *)
InitAny ==
    \/ InitWith({TableJoin("Inner", "Any", "Less", FALSE, FALSE),
                 TableJoin("Left", "Any", "Less", FALSE, FALSE)}, BOOLEAN, {})
    \/ InitWith({TableJoin("Right", "Any", "Less", FALSE, FALSE)}, {FALSE}, RowRefs)

SpecAny == InitAny /\ [][NextProbe]_vars

(* INNER ANY with a left ON-condition mask, the emissions of every stored
   row counted over the joinBlock calls. *)
InitInnerAny == InitWith({TableJoin("Inner", "Any", "Less", TRUE, FALSE)}, {FALSE}, RowRefs)

SpecInnerAny == InitInnerAny /\ [][NextProbe]_vars

(* LEFT SEMI and LEFT ANTI with an ON-condition mask on the left side. *)
InitSemiAnti ==
    InitWith({TableJoin("Left", "Semi", "Less", TRUE, FALSE),
              TableJoin("Left", "Anti", "Less", TRUE, FALSE)}, {FALSE}, {})

SpecSemiAnti == InitSemiAnti /\ [][NextProbe]_vars

(* LEFT ASOF under each inequality. *)
InitAsof ==
    InitWith({TableJoin("Left", "Asof", inequality, FALSE, FALSE) :
                  inequality \in Inequalities}, {FALSE}, {})

SpecAsof == InitAsof /\ [][NextProbe]_vars

(* CROSS with each limit max_joined_block_rows. *)
InitCross ==
    InitWith({[TableJoin("Cross", "Unspecified", "Less", FALSE, FALSE)
                  EXCEPT !.max_joined_block_rows = M] : M \in 0..MaxJoinedBlockRows},
             {FALSE}, {})

SpecCross == InitCross /\ [][NextCross]_vars

(* A second engine sharing the data, under combinations with and without
   setUsedOnce, with and without flags. *)
InitReuse ==
    InitWith({TableJoin("Inner", "Any", "Less", FALSE, FALSE),
              TableJoin("Right", "Any", "Less", FALSE, FALSE),
              TableJoin("Right", "All", "Less", FALSE, FALSE),
              TableJoin("Left", "Any", "Less", FALSE, FALSE)}, {FALSE}, {})

SpecReuse == InitReuse /\ [][NextReuse]_vars

(* Every combination the constructor accepts: the four kinds under RightAny,
   Any and All, SEMI and ANTI on LEFT and RIGHT, ASOF on LEFT and INNER, and
   CROSS. *)
AllKinds ==
    {TableJoin(KIND, STRICTNESS, "LessOrEquals", FALSE, FALSE) :
        KIND \in Kinds, STRICTNESS \in {"RightAny", "Any", "All"}}
    \cup {TableJoin(KIND, STRICTNESS, "LessOrEquals", FALSE, FALSE) :
        KIND \in {"Left", "Right"}, STRICTNESS \in {"Semi", "Anti"}}
    \cup {TableJoin(KIND, "Asof", "LessOrEquals", FALSE, FALSE) : KIND \in {"Left", "Inner"}}
    \cup {[TableJoin("Cross", "Unspecified", "Less", FALSE, FALSE)
              EXCEPT !.max_joined_block_rows = 1]}

InitAllKinds == InitWith(AllKinds, {FALSE}, {})

NextAllKinds == AddJoinedBlock \/ JoinBlock \/ JoinBlockCross \/ ResumeCross

SpecAllKinds == InitAllKinds /\ [][NextAllKinds]_vars

(* joinGetCheckAndGetReturnType on engines with one to MaxKeyColumns keys of
   every stored type and an added column "v" of every stored type. *)
InitJoinGetCheck ==
    /\ InitData({TableJoin("Left", "Any", "Less", FALSE, FALSE)}, {FALSE}, {})
    /\ right_table_keys \in SeqsUpTo(StoredTypes, MaxKeyColumns) \ {<<>>}
    /\ key_columns = extractKeysForJoin(right_table_keys)
    /\ key_sizes = HashJoinKeys(table_join, right_table_keys, key_columns).key_sizes
    /\ sample_block_with_columns_to_add \in [{"v"} -> StoredTypes]

SpecJoinGetCheck == InitJoinGetCheck /\ [][NextJoinGetCheck]_vars

(* The right key columns of an ASOF join: up to MaxKeyColumns columns, the
   asof column last. *)
AsofKeys == SeqsUpTo({t \in StoredTypes : t.base = "UInt8"}, MaxKeyColumns)

(* Construction of ASOF and ALL engines of every kind, with and without a
   dictionary reader, and the build that follows a construction. *)
InitConstruct ==
    /\ InitMembers({[TableJoin(KIND, STRICTNESS, "Less", FALSE, FALSE)
                        EXCEPT !.dictionary_reader = dictionary_reader] :
                        KIND \in Kinds, STRICTNESS \in {"Asof", "All"},
                        dictionary_reader \in BOOLEAN}, {FALSE}, {})
    /\ phase = "new"
    /\ type = "EMPTY"
    /\ thrown = NoException
    /\ right_table_keys \in IF table_join.strictness = "Asof" THEN AsofKeys
                             ELSE {DefaultRightKeys(table_join)}
    /\ key_columns = extractKeysForJoin(right_table_keys)
    /\ key_sizes = <<>>
    /\ sample_block_with_columns_to_add = DefaultColumns

NextConstruct == Construct \/ AddJoinedBlock

(* The key columns chooseMethod tells apart: numeric columns of the widths of
   the numeric types and of a width no numeric type has, fixed strings that
   fit in 16 bytes, in 32 bytes and in neither, strings, constant strings and
   a column that is neither fixed nor a string. *)
KeyColumns ==
    {Column("ColumnVector", size) : size \in {1, 2, 3, 4, 8, 16, 32}}
    \cup {Column("ColumnFixedString", size) : size \in {16, 17, 33}}
    \cup {Column(class, 0) :
             class \in {"ColumnString", "ColumnConst(ColumnString)", "ColumnNullable"}}

(* The asof columns AsofRowRefs::getTypeSize knows. *)
AsofColumns == {Column("ColumnVector", size) : size \in {1, 2, 4, 8}}

(* The type of a key column, as far as the constructor looks at it. *)
TypeOf(column) == DataType("UInt8", column.class = "ColumnNullable", FALSE)

(* The constructor over zero to MaxKeyColumns key columns of every class, for
   ALL and ASOF engines and over a dictionary. *)
InitChooseMethod ==
    /\ InitMembers({[TableJoin("Left", STRICTNESS, "Less", FALSE, FALSE)
                        EXCEPT !.dictionary_reader = dictionary_reader] :
                        STRICTNESS \in {"All", "Asof"},
                        dictionary_reader \in BOOLEAN}, {FALSE}, {})
    /\ phase = "new"
    /\ type = "EMPTY"
    /\ thrown = NoException
    /\ key_columns \in SeqsUpTo(KeyColumns, MaxKeyColumns)
    /\ (table_join.strictness = "Asof" /\ key_columns # <<>>) =>
           key_columns[Len(key_columns)] \in AsofColumns
    /\ key_sizes = <<>>
    /\ right_table_keys = [j \in 1..Len(key_columns) |-> TypeOf(key_columns[j])]
    /\ sample_block_with_columns_to_add = DefaultColumns

NextChooseMethod == ChooseMethod

SpecChooseMethod == InitChooseMethod /\ [][NextChooseMethod]_vars

SpecConstruct == InitConstruct /\ [][NextConstruct]_vars

(* joinGet on an engine of every combination. *)
SpecJoinGet == InitAllKinds /\ [][NextJoinGet]_vars

(* The build and getNonJoinedBlocks under every combination. *)
NextGetNonJoined == AddJoinedBlock \/ GetNonJoinedBlocks \/ FillColumns

SpecGetNonJoined == InitAllKinds /\ [][NextGetNonJoined]_vars

(* The build alone, for every combination that hashes its keys other than
   ASOF, with and without an ON-condition mask on the right side. *)
InitBuild ==
    InitWith({TableJoin(KIND, STRICTNESS, "Less", FALSE, mask_right) :
                 KIND \in Kinds, STRICTNESS \in {"RightAny", "Any", "All"},
                 mask_right \in BOOLEAN}
             \cup {TableJoin(KIND, STRICTNESS, "Less", FALSE, mask_right) :
                 KIND \in {"Left", "Right"}, STRICTNESS \in {"Semi", "Anti"},
                 mask_right \in BOOLEAN}, {FALSE}, {})

NextBuild == AddJoinedBlock

SpecBuild == InitBuild /\ [][NextBuild]_vars

(* The non-joined scan over chains and a stash of null maps and condition
   masks (RIGHT ALL with a right ON-condition mask) and over single RowRefs
   (FULL with the old ANY). *)
InitScan ==
    InitWith({TableJoin("Right", "All", "Less", FALSE, TRUE),
              TableJoin("Full", "RightAny", "Less", FALSE, FALSE)}, {FALSE}, {})

SpecScan == InitScan /\ [][Next]_vars

(* The size limits of the descriptor: none, on the rows, on the bytes, both. *)
SizeLimits == {[max_rows |-> r, max_bytes |-> b] : r \in {0, MaxRows}, b \in {0, 2 * MaxRows + 1}}

(* addJoinedBlock with its limits and its failures: engines over a hash table
   (a RowRef per key, a chain per key), over the stored blocks alone (CROSS)
   and over a dictionary. *)
InitAddBlock ==
    InitWith({[d EXCEPT !.size_limits = lim, !.dictionary_reader = dict] :
                 d \in {TableJoin("Left", "Any", "Less", FALSE, FALSE),
                        TableJoin("Inner", "All", "Less", FALSE, FALSE),
                        TableJoin("Cross", "Unspecified", "Less", FALSE, FALSE)},
                 lim \in SizeLimits, dict \in BOOLEAN}, {FALSE}, {})

SpecAddBlock == InitAddBlock /\ [][NextAddBlock]_vars

(* addJoinedBlock with its limits on engines that stash rows: RIGHT with a
   chain per key and a right ON condition, FULL with a RowRef per key, and
   CROSS. *)
InitAddBlockStash ==
    InitWith({[d EXCEPT !.size_limits = lim] :
                 d \in {TableJoin("Right", "All", "Less", FALSE, TRUE),
                        TableJoin("Full", "RightAny", "Less", FALSE, FALSE),
                        TableJoin("Cross", "Unspecified", "Less", FALSE, FALSE)},
                 lim \in SizeLimits}, {FALSE}, {})

SpecAddBlockStash == InitAddBlockStash /\ [][NextAddBlock]_vars

-----------------------------------------------------------------------------
(* What the claims speak of. *)

(* The rows of a joined block: <<left row, RowRef or Default>>. *)
JoinedRows(j) == [n \in 1..Len(j.right) |-> <<j.left[n], j.right[n]>>]

WellFormed(j) ==
    /\ Len(j.left) = Len(j.right)
    /\ \A n \in 1..Len(j.left) : j.left[n] \in DOMAIN left_block
    /\ \A n \in 1..Len(j.right) : j.right[n] \in StoredRefs \cup {Default}

(* Left row i can join at all: its key has no NULL and it passes the mask. *)
Acceptable(i) ==
    left_block[i].k # NULL /\ (table_join.mask_left => left_block[i].m)

(* The stored right row ref is in the table: no NULL key, passes the mask. *)
Joinable(ref) ==
    StoredRow(ref).k # NULL /\ (table_join.mask_right => StoredRow(ref).m)

(* The relational equi-join condition of left row i and the right row ref. *)
Matches(i, ref) ==
    Acceptable(i) /\ Joinable(ref) /\ StoredRow(ref).k = left_block[i].k

Is(KIND, STRICTNESS) == table_join.kind = KIND /\ table_join.strictness = STRICTNESS

(* C1: under INNER ALL without condition masks the block joinBlock produces is,
   as a multiset, the equi-join of the left block with all the stored right
   rows: each pair (left row, right row) with equal non-NULL keys exactly once,
   and nothing else. *)
C1_InnerAllIsEquiJoin ==
    (phase = "probe" /\ Is("Inner", "All")) =>
        /\ WellFormed(joined)
        /\ \A i \in DOMAIN left_block : \A ref \in StoredRefs \cup {Default} :
              Count(JoinedRows(joined), <<i, ref>>) =
                  IF ref # Default /\ Matches(i, ref) THEN 1 ELSE 0

(* A left block with a row matching two right rows stored in different blocks
   and a row matching none, as in scenario S1. *)
C1_Witness ==
    /\ phase = "probe" /\ Is("Inner", "All")
    /\ \E i \in DOMAIN left_block : \E r1, r2 \in StoredRefs :
          /\ r1[1] # r2[1] /\ Matches(i, r1) /\ Matches(i, r2)
          /\ Count(JoinedRows(joined), <<i, r1>>) = 1
          /\ Count(JoinedRows(joined), <<i, r2>>) = 1
    /\ \E i \in DOMAIN left_block : \A ref \in StoredRefs : ~Matches(i, ref)

(* How often left row i appears in the joined block. *)
LeftCount(j, i) == Count(j.left, i)

HasMatch(i) == \E ref \in StoredRefs : Matches(i, ref)

(* C2: under LEFT ALL every left row appears at least once in the joined
   block; a left row without a matching right row (key absent, NULL key or
   left mask false) appears exactly once, with the default right columns. *)
C2_LeftAllKeepsLeftRows ==
    (phase = "probe" /\ Is("Left", "All")) =>
        /\ WellFormed(joined)
        /\ \A i \in DOMAIN left_block :
              /\ LeftCount(joined, i) >= 1
              /\ ~HasMatch(i) =>
                    /\ LeftCount(joined, i) = 1
                    /\ Count(JoinedRows(joined), <<i, Default>>) = 1

(* A left block with a row whose key is stored but whose mask is false, padded
   with defaults, next to a row with a NULL key, padded too. *)
C2_Witness ==
    /\ phase = "probe" /\ Is("Left", "All")
    /\ \E i, n \in DOMAIN left_block :
          /\ ~left_block[i].m /\ left_block[i].k \in DOMAIN maps
          /\ Count(JoinedRows(joined), <<i, Default>>) = 1
          /\ left_block[n].k = NULL /\ left_block[n].m
          /\ Count(JoinedRows(joined), <<n, Default>>) = 1

(* All the rows the non-joined scan has returned so far. *)
Scanned == Flatten(non_joined)

(* C3: under RIGHT ALL without condition masks, once the build, the probes and
   a complete non-joined scan are over, every stored right row has been
   emitted at least once, by a probe or by the scan; a right row with a NULL
   key is emitted by no probe and exactly once by the scan (never more than
   once while the scan runs); a left row without a match is not emitted by
   the probe. *)
C3_RightAllEmitsEveryRightRow ==
    Is("Right", "All") =>
        /\ \A ref \in StoredRefs :
              /\ scanner.done => (emitted[ref] >= 1 \/ Count(Scanned, ref) >= 1)
              /\ StoredRow(ref).k = NULL =>
                    /\ emitted[ref] = 0
                    /\ Count(Scanned, ref) <= 1
                    /\ scanner.done => Count(Scanned, ref) = 1
        /\ phase # "build" =>
              /\ WellFormed(joined)
              /\ \A i \in DOMAIN left_block : ~HasMatch(i) => LeftCount(joined, i) = 0

(* Scenario S3 after the scan: a right row joined by the probe, a right row
   with a NULL key returned by the scan, a left row without a match. *)
C3_Witness ==
    /\ Is("Right", "All") /\ scanner.done
    /\ \E r1, r2 \in StoredRefs :
          /\ emitted[r1] = 1 /\ Count(Scanned, r1) = 0
          /\ StoredRow(r2).k = NULL /\ Count(Scanned, r2) = 1
    /\ \E i \in DOMAIN left_block : left_block[i].k # NULL /\ ~HasMatch(i)

(* How many finished setUsedOnce calls on the slot off returned res. *)
OnceCalls(off, res) ==
    SeqSum([w \in DOMAIN workers |-> Count(workers[w].once, <<off, res>>)])

(* How often the workers have appended the right row ref. *)
AppendedByWorkers(ref) ==
    SeqSum([w \in DOMAIN workers |-> Count(workers[w].st.columns, ref)])

(* C4: with concurrent probers, in every interleaving of the setUsedOnce calls
   on a slot at most one call has returned true, a call that returned false
   comes after the one that returned true, and the slot's flag is set from
   then on; hence under Any/Semi on Right and Any on Inner a stored right row
   is appended at most once over all the workers and all their left blocks. *)
C4_SetUsedOnceExactlyOneWinner ==
    /\ \A off \in 0..getBufferSizeInCells :
          /\ OnceCalls(off, TRUE) <= 1
          /\ OnceCalls(off, FALSE) >= 1 => OnceCalls(off, TRUE) = 1
          /\ OnceCalls(off, TRUE) = 1 => used_flags.flags[off + 1]
    /\ \A ref \in StoredRefs : AppendedByWorkers(ref) <= 1

(* Two workers have probed the same key and finished: one call of setUsedOnce
   returned true and its worker emitted the slot's rows, the other returned
   false and its worker emitted nothing. *)
C4_Witness ==
    \E w1, w2 \in DOMAIN workers : \E off \in 1..getBufferSizeInCells :
        /\ w1 # w2
        /\ workers[w1].once = <<(<<off, TRUE>>)>>
        /\ workers[w2].once = <<(<<off, FALSE>>)>>
        /\ workers[w1].pc = "done" /\ workers[w2].pc = "done"
        /\ workers[w1].left[1].k = off /\ workers[w2].left[1].k = off
        /\ Len(workers[w1].joined.right) >= 1
        /\ workers[w2].joined.right = <<>>

(* C5: under INNER ANY and LEFT ANY every left row appears at most once in the
   block joinBlock produces; under RIGHT ANY every stored right row is emitted
   at most once over all the joinBlock calls together. *)
C5_AnyEmitsAtMostOnce ==
    /\ (phase = "probe" /\ (Is("Inner", "Any") \/ Is("Left", "Any"))) =>
          /\ WellFormed(joined)
          /\ \A i \in DOMAIN left_block : LeftCount(joined, i) <= 1
    /\ Is("Right", "Any") =>
          \A ref \in StoredRefs : emitted[ref] <= 1

(* RIGHT ANY: a right row was emitted by an earlier call, and the last call
   probed its key again and emitted nothing. *)
C5_Witness ==
    /\ phase = "probe" /\ Is("Right", "Any")
    /\ \E ref \in StoredRefs : \E i \in DOMAIN left_block :
          /\ Matches(i, ref)
          /\ emitted[ref] = 1
          /\ joined.right = <<>>

(* How often the joined block must hold left row i under LEFT ANTI. *)
AntiCount(i) == IF HasMatch(i) THEN 0 ELSE 1

(* C6: under LEFT ANTI the block joinBlock produces holds a left row exactly
   once when no stored right row matches it (a NULL key and a false left mask
   match nothing) and not at all when one matches. *)
C6_AntiLeftEmitsUnmatched ==
    (phase = "probe" /\ Is("Left", "Anti")) =>
        \A i \in DOMAIN left_block : LeftCount(joined, i) = AntiCount(i)

(* LEFT ANTI, a left row with a NULL key: the filter drops the row although
   nothing matches it, while a default row is appended to the right columns. *)
C6_Witness ==
    /\ phase = "probe" /\ Is("Left", "Anti")
    /\ Len(left_block) = 1
    /\ left_block[1].k = NULL /\ left_block[1].m
    /\ joined.left = <<>>
    /\ joined.right = <<Default>>

(* C7: under LEFT SEMI the block joinBlock produces holds a left row exactly
   once, with a matching right row, when a stored right row has its key (not
   NULL) and the row passes the left mask, however many right rows match; it
   does not hold the row otherwise. *)
C7_SemiLeftEmitsMatchedOnce ==
    (phase = "probe" /\ Is("Left", "Semi")) =>
        /\ WellFormed(joined)
        /\ \A i \in DOMAIN left_block :
              /\ LeftCount(joined, i) = IF HasMatch(i) THEN 1 ELSE 0
              /\ \A n \in DOMAIN joined.left :
                    joined.left[n] = i =>
                        joined.right[n] # Default /\ Matches(i, joined.right[n])

(* LEFT SEMI: a left row matched by two right rows is held once, next to a row
   with a NULL key and a row with a false mask, which are not held. *)
C7_Witness ==
    /\ phase = "probe" /\ Is("Left", "Semi")
    /\ \E i \in DOMAIN left_block : \E r1, r2 \in StoredRefs :
          /\ r1 # r2 /\ Matches(i, r1) /\ Matches(i, r2)
          /\ LeftCount(joined, i) = 1
    /\ \E i \in DOMAIN left_block :
          (left_block[i].k = NULL \/ ~left_block[i].m) /\ LeftCount(joined, i) = 0

(* The stored value v stands in the configured inequality to the left value t. *)
AsofSatisfied(v, t) ==
    \/ table_join.asof_inequality = "Less" /\ v < t
    \/ table_join.asof_inequality = "LessOrEquals" /\ v <= t
    \/ table_join.asof_inequality = "Greater" /\ v > t
    \/ table_join.asof_inequality = "GreaterOrEquals" /\ v >= t

(* The stored right rows left row i may take under ASOF. *)
AsofCandidates(i) ==
    {ref \in StoredRefs :
        Matches(i, ref) /\ AsofSatisfied(StoredRow(ref).t, left_block[i].t)}

Distance(v, t) == IF v <= t THEN t - v ELSE v - t

(* C8: under LEFT ASOF the block joinBlock produces holds every left row once,
   in order; its right columns are those of a stored right row with the same
   key whose asof value satisfies the inequality and is nearest to the left
   row's value among such rows, or the defaults when there is no such row. *)
C8_AsofLeftReturnsNearest ==
    (phase = "probe" /\ Is("Left", "Asof")) =>
        /\ joined.left = [i \in 1..Len(left_block) |-> i]
        /\ Len(joined.right) = Len(left_block)
        /\ \A i \in DOMAIN left_block :
              IF AsofCandidates(i) = {} THEN joined.right[i] = Default
              ELSE /\ joined.right[i] \in AsofCandidates(i)
                   /\ \A c \in AsofCandidates(i) :
                         Distance(StoredRow(joined.right[i]).t, left_block[i].t)
                             <= Distance(StoredRow(c).t, left_block[i].t)

(* As in scenario S5, under <: three stored values of one key; a left row at
   the least of them takes the defaults, as no stored value is below it, and
   a left row at the greatest of them takes the middle one, the nearest below
   it. *)
C8_Witness ==
    /\ phase = "probe" /\ Is("Left", "Asof")
    /\ table_join.asof_inequality = "Less"
    /\ Len(left_block) = 2
    /\ \E r1, r2, r3 \in StoredRefs :
          /\ \A r \in {r1, r2, r3} : Matches(1, r) /\ Matches(2, r)
          /\ StoredRow(r1).t < StoredRow(r2).t
          /\ StoredRow(r2).t < StoredRow(r3).t
          /\ left_block[1].t = StoredRow(r1).t
          /\ left_block[2].t = StoredRow(r3).t
          /\ joined.right = <<Default, r2>>

(* The single-shot Cartesian product of the left block with the stored right
   blocks: left row major, then right block major, then right row major. *)
CrossProduct ==
    Flatten([i \in 1..Len(left_block) |->
        Flatten([bn \in 1..Len(blocks) |->
            [r \in 1..Len(blocks[bn]) |-> <<i, <<bn, r>>>>]])])

Produced == Flatten(chunks)

(* C9: under CROSS, for every left block, stored right blocks and limit, the
   concatenation of the blocks produced so far is a prefix of the single-shot
   Cartesian product, and it is the whole product once no continuation is
   returned. *)
C9_CrossResumptionIsProduct ==
    (phase = "probe" /\ Is("Cross", "Unspecified")) =>
        /\ Len(Produced) <= Len(CrossProduct)
        /\ Produced = SubSeq(CrossProduct, 1, Len(Produced))
        /\ ~not_processed.set => Produced = CrossProduct

(* As in scenario S6: two left rows, two non-empty right blocks and a limit
   that is exceeded, so that the product came in more than one block. *)
C9_Witness ==
    /\ phase = "probe" /\ Is("Cross", "Unspecified")
    /\ ~not_processed.set
    /\ Len(left_block) = 2
    /\ Len(blocks) = 2 /\ blocks[1] # <<>> /\ blocks[2] # <<>>
    /\ Len(chunks) >= 2
    /\ chunks[1] # <<>> /\ chunks[2] # <<>>
    /\ Produced = CrossProduct

(* The rows of the largest stored right block. *)
RECURSIVE MaxRightBlockRows(_)
MaxRightBlockRows(bn) ==
    IF bn > Len(blocks) THEN 0
    ELSE LET rest == MaxRightBlockRows(bn + 1)
         IN  IF Len(blocks[bn]) > rest THEN Len(blocks[bn]) ELSE rest

(* C10: under CROSS every block produced has at most max_joined_block_rows
   rows plus the rows of one stored right block. *)
C10_CrossChunkBoundedByOneBlock ==
    Is("Cross", "Unspecified") =>
        \A n \in DOMAIN chunks :
            Len(chunks[n]) <= table_join.max_joined_block_rows + MaxRightBlockRows(1)

(* CROSS with limit 1 over two right blocks of two rows each: the block
   produced for one left row has four rows. *)
C10_Witness ==
    /\ Is("Cross", "Unspecified")
    /\ table_join.max_joined_block_rows = 1
    /\ Len(blocks) = 2 /\ Len(blocks[1]) = 2 /\ Len(blocks[2]) = 2
    /\ Len(left_block) = 1
    /\ chunks # <<>> /\ Len(chunks[1]) = 4

(* The output row a precedes the output row b: by left row, then by stored
   right block, then by row within the block. *)
CrossBefore(a, b) ==
    \/ a[1] < b[1]
    \/ a[1] = b[1] /\ a[2][1] < b[2][1]
    \/ a[1] = b[1] /\ a[2][1] = b[2][1] /\ a[2][2] < b[2][2]

(* The number of rows of all the stored right blocks. *)
RightRows == SeqSum([bn \in 1..Len(blocks) |-> Len(blocks[bn])])

(* C11: under CROSS the rows produced, concatenated over the blocks returned,
   are in strictly increasing order by (left row, right block in insertion
   order, row within the right block); once no continuation is returned
   their number is (left rows) x (sum of the rows of the right blocks). *)
C11_CrossOrderAndCount ==
    (phase = "probe" /\ Is("Cross", "Unspecified")) =>
        /\ \A n \in 1..(Len(Produced) - 1) : CrossBefore(Produced[n], Produced[n + 1])
        /\ ~not_processed.set => Len(Produced) = Len(left_block) * RightRows

(* Two left rows over right blocks of one and two rows, produced in two
   blocks: six rows, the first of the first left row and the larger block's
   rows last for each left row. *)
C11_Witness ==
    /\ phase = "probe" /\ Is("Cross", "Unspecified")
    /\ ~not_processed.set
    /\ Len(left_block) = 2
    /\ Len(blocks) = 2 /\ Len(blocks[1]) = 1 /\ Len(blocks[2]) = 2
    /\ Len(chunks) >= 2
    /\ Len(Produced) = 6
    /\ Produced[1] = <<1, <<1, 1>>>>
    /\ Produced[3] = <<1, <<2, 2>>>>
    /\ Produced[4] = <<2, <<1, 1>>>>

(* The block joinBlock would return now for the left block, through an engine
   whose used flags are uf. *)
Output(uf, left) ==
    LET r == joinBlockImpl(table_join.kind, table_join.strictness, uf, left)
    IN  [left |-> r.left, right |-> r.right]

(* The two engines hold the same used flag for every key of the left block. *)
SameFlagsFor(left) ==
    \A i \in DOMAIN left :
        left[i].k \in DOMAIN maps =>
            getUsedSafe(used_flags, offsetInternal(left[i].k))
                = getUsedSafe(other.used_flags, offsetInternal(left[i].k))

(* The used flags of an engine that has probed nothing since its build. *)
AsBuilt ==
    IF MapGetterFlagged(table_join.kind, table_join.strictness)
    THEN [need_flags |-> TRUE, flags |-> Repeat(FALSE, getBufferSizeInCells + 1)]
    ELSE [need_flags |-> FALSE, flags |-> <<>>]

(* C12 as stated: after reuseJoinedData, whatever was probed before through
   either engine, joinBlock through the second engine returns for every left
   block what joinBlock through the first returns for it. *)
C12_ReuseYieldsIdenticalOutput ==
    other.shared =>
        \A left \in LeftBlocks : Output(other.used_flags, left) = Output(used_flags, left)

(* C12 amended: the second engine shares the data but starts from used flags
   of its own, all false.  Until it probes, its joinBlock returns for every
   left block what the first engine returned for it right after the build;
   at any time it returns what the first engine's returns under the
   combinations that do not gate emission by setUsedOnce, and under the gated
   ones (ANY and SEMI on RIGHT, ANY on INNER) for the left blocks whose
   stored keys have the same used flag in both engines. *)
C12_ReuseYieldsIdenticalOutputSameFlags ==
    other.shared =>
        \A left \in LeftBlocks :
            /\ (~UsesSetUsedOnce(table_join.kind, table_join.strictness) \/ SameFlagsFor(left))
                   => Output(other.used_flags, left) = Output(used_flags, left)
            /\ ~other.probed => Output(other.used_flags, left) = Output(AsBuilt, left)

(* RIGHT ALL: the first engine has probed a key and set its flag, the second
   engine then shared the data and probed another key, so that the flags of
   the two differ: the first engine's last left block still gives the same
   block through both, with the matched right row. *)
C12_Witness ==
    /\ Is("Right", "All") /\ other.shared /\ other.probed
    /\ \E i \in DOMAIN left_block : HasMatch(i)
    /\ joined.right # <<>>
    /\ Output(other.used_flags, left_block) = joined
    /\ \E o1, o2 \in 1..getBufferSizeInCells :
          /\ used_flags.flags[o1 + 1] /\ ~other.used_flags.flags[o1 + 1]
          /\ other.used_flags.flags[o2 + 1]

(* C13: every joinBlock call, of any kind and strictness, leaves the stored
   right blocks, the hash table with its chains and the stash of null maps as
   they were, and the descriptor too: of the engine's state only the used
   flags may change. *)
C13_JoinBlockChangesOnlyUsedFlags ==
    [][phase' = "probe" =>
          /\ blocks' = blocks
          /\ maps' = maps
          /\ blocks_nullmaps' = blocks_nullmaps
          /\ table_join' = table_join
          /\ any_take_last_row' = any_take_last_row]_vars

(* A RIGHT join after a probe that matched: a used flag is set, and the
   table, the blocks and the stashed null map are there as built. *)
C13_Witness ==
    /\ phase = "probe" /\ table_join.kind = "Right"
    /\ \E i \in DOMAIN left_block : HasMatch(i)
    /\ \E off \in 1..getBufferSizeInCells : used_flags.flags[off + 1]
    /\ blocks_nullmaps # <<>>
    /\ DOMAIN maps # {}

(* The keys the concurrent probers have found in the table so far. *)
FoundKeys ==
    {k \in DOMAIN maps :
        \E w \in DOMAIN workers : \E i \in 1..Len(workers[w].left) :
            /\ workers[w].left[i].k = k
            /\ (i < workers[w].i \/ workers[w].pc = "done")
            /\ isFound(maps, workers[w].left[i])}

ProbersDone == workers # <<>> /\ \A w \in DOMAIN workers : workers[w].pc = "done"

(* The rows the scan adds for the slot of key k. *)
SlotRows(k) == AdderNonJoined(MapGetterMap(table_join.kind, table_join.strictness), maps[k])

(* C14: under a RIGHT or FULL kind that keeps used flags, once the concurrent
   joinBlock calls have returned, the flag of a slot is set iff some prober
   found a key of that slot; the complete non-joined scan then emits no row of
   a slot a prober matched and every row of a slot no prober matched. *)
C14_FlagsAreExactlyTheFoundSlots ==
    (/\ ProbersDone
     /\ isRightOrFull(table_join.kind)
     /\ MapGetterFlagged(table_join.kind, table_join.strictness)) =>
        /\ \A k \in DOMAIN maps : isUsed(offsetInternal(k)) <=> k \in FoundKeys
        /\ (phase = "scan" /\ scanner.done) =>
              \A k \in DOMAIN maps : \A n \in DOMAIN SlotRows(k) :
                  Count(Scanned, SlotRows(k)[n]) = IF k \in FoundKeys THEN 0 ELSE 1

(* FULL ANY: a prober found key 1, the flag of its slot is still unset, and the
   complete scan has emitted the row the prober matched. *)
C14_Witness ==
    /\ Is("Full", "Any") /\ ProbersDone
    /\ 1 \in FoundKeys
    /\ ~isUsed(offsetInternal(1))
    /\ phase = "scan" /\ scanner.done
    /\ Count(Scanned, SlotRows(1)[1]) = 1

(* The entries of the stash that mark the stored row ref. *)
Stashed(ref) ==
    {n \in DOMAIN blocks_nullmaps :
        blocks_nullmaps[n][1] = ref[1] /\ blocks_nullmaps[n][2][ref[2]]}

(* C15: after any sequence of addJoinedBlock calls no row with a NULL key is
   in the hash table; under INNER and LEFT such a row is in no stash entry
   either, under RIGHT and FULL one stash entry of its block marks it. *)
C15_NullKeysNeverInTable ==
    /\ NULL \notin DOMAIN maps
    /\ \A k \in DOMAIN maps : \A n \in DOMAIN SlotRows(k) : StoredRow(SlotRows(k)[n]).k # NULL
    /\ \A ref \in StoredRefs :
          StoredRow(ref).k = NULL =>
              Cardinality(Stashed(ref)) = IF isRightOrFull(table_join.kind) THEN 1 ELSE 0

(* A FULL join with a right ON-condition mask after two blocks: a row with a
   NULL key that also fails the condition is marked by the null map of its
   block, and the table holds the rows with keys. *)
C15_Witness ==
    /\ table_join.kind = "Full" /\ table_join.mask_right
    /\ Len(blocks) = 2
    /\ \E ref \in StoredRefs :
          /\ StoredRow(ref).k = NULL /\ ~StoredRow(ref).m
          /\ Cardinality(Stashed(ref)) = 1
    /\ Len(blocks_nullmaps) >= 3
    /\ DOMAIN maps # {}

(* A limit of the descriptor that is set is exceeded by the rows or the bytes
   the engine counts now. *)
LimitsExceeded ==
    \/ /\ table_join.size_limits.max_rows # 0
       /\ getTotalRowCount(blocks, maps) > table_join.size_limits.max_rows
    \/ /\ table_join.size_limits.max_bytes # 0
       /\ getTotalByteCount(blocks, maps) > table_join.size_limits.max_bytes

(* C16: an addJoinedBlock call that returns, returns false exactly when it
   checks the limits and the rows or the bytes counted with the new block
   stored exceed a limit; with check_limits = false it returns true. *)
C16_ReturnsFalseIffLimitsExceeded ==
    returned.value \in {"true", "false"} =>
        (returned.value = "false" <=> (returned.check_limits /\ LimitsExceeded))

(* A cross join limited to MaxRows rows: the first block filled the limit, the
   second block of one row exceeds it and the call returned false. *)
C16_Witness ==
    /\ type = "CROSS"
    /\ table_join.size_limits = [max_rows |-> MaxRows, max_bytes |-> 0]
    /\ Len(blocks) = 2 /\ Len(blocks[1]) = MaxRows /\ Len(blocks[2]) = 1
    /\ returned.value = "false" /\ returned.check_limits

(* C20, as stated: addJoinedBlock fails with LOGICAL_ERROR when the table type
   is EMPTY, when the engine joins over a dictionary or when it is locked by
   a storage join, and with NOT_IMPLEMENTED when the block has more rows than
   RowRef::SizeT can number. *)
C20_AddBlockFailures ==
    returned.value # "none" =>
        /\ (type = "EMPTY" \/ type = "DICT" \/ returned.locked)
              => returned.value = "LOGICAL_ERROR"
        /\ returned.too_many_rows => returned.value = "NOT_IMPLEMENTED"

(* C20, amended: the tests are made in the order of the code.  The call fails
   with LOGICAL_ERROR when the type is EMPTY or DICT; otherwise with
   NOT_IMPLEMENTED when the block has too many rows; otherwise with
   LOGICAL_ERROR when the engine is locked. *)
C20_AddBlockFailuresInOrder ==
    returned.value # "none" =>
        /\ (type = "EMPTY" \/ type = "DICT") => returned.value = "LOGICAL_ERROR"
        /\ (type \notin {"EMPTY", "DICT"} /\ returned.too_many_rows)
              => returned.value = "NOT_IMPLEMENTED"
        /\ (type \notin {"EMPTY", "DICT"} /\ ~returned.too_many_rows /\ returned.locked)
              => returned.value = "LOGICAL_ERROR"

(* An engine over a hash table that was locked after its first block: a block
   of too many rows is refused with NOT_IMPLEMENTED although the engine is
   locked. *)
C20_Witness ==
    /\ type = "hashed" /\ Len(blocks) = 1
    /\ storage_join_lock /\ returned.locked
    /\ returned.too_many_rows
    /\ returned.value = "NOT_IMPLEMENTED"

(* C17: every block the non-joined scan returns has at most max_block_size
   rows. *)
C17_ScanBlocksWithinMaxBlockSize ==
    phase = "scan" =>
        \A n \in DOMAIN non_joined : Len(non_joined[n]) <= scanner.max_block_size

(* A scan with max_block_size 1 over a table whose one unused slot holds a
   chain of two rows: the first block has both rows. *)
C17_Witness ==
    /\ phase = "scan" /\ Is("Right", "All")
    /\ scanner.max_block_size = 1
    /\ 1 \in DOMAIN maps /\ Len(maps[1]) = 2 /\ ~isUsed(offsetInternal(1))
    /\ non_joined # <<>> /\ non_joined[1] = maps[1]

(* The stored row ref is a payload row of a slot whose used flag is false. *)
InUnusedSlot(ref) ==
    \E k \in DOMAIN maps :
        /\ ~isUsed(offsetInternal(k))
        /\ IF MapGetterMap(table_join.kind, table_join.strictness) = "MapsOne"
           THEN maps[k] = ref
           ELSE \E n \in DOMAIN maps[k] : maps[k][n] = ref

(* C18: a complete non-joined scan has emitted every payload row of every
   slot whose used flag is false and every stashed row whose mask bit is set,
   each once, and nothing else; the rows of the slots come before the rows of
   the stash. *)
C18_CompleteScanEmitsUnusedAndStashed ==
    (phase = "scan" /\ scanner.done) =>
        /\ \A ref \in StoredRefs :
              Count(Scanned, ref) = IF InUnusedSlot(ref) \/ Stashed(ref) # {} THEN 1 ELSE 0
        /\ \A i, j \in DOMAIN Scanned :
              (Stashed(Scanned[i]) # {} /\ InUnusedSlot(Scanned[j])) => j < i

(* A complete scan in several blocks after a probe that used one slot: the
   chain of the unused slot was emitted, then rows of the stash; the rows of
   the used slot were not. *)
C18_Witness ==
    /\ phase = "scan" /\ scanner.done /\ Is("Right", "All")
    /\ Len(non_joined) >= 2
    /\ \E k1, k2 \in DOMAIN maps :
          /\ isUsed(offsetInternal(k1)) /\ ~isUsed(offsetInternal(k2))
          /\ Len(maps[k2]) = 2
          /\ Count(Scanned, maps[k1][1]) = 0
          /\ Count(Scanned, maps[k2][2]) = 1
    /\ \E ref \in StoredRefs : Stashed(ref) # {} /\ ~StoredRow(ref).m /\ Count(Scanned, ref) = 1

(* C19: getNonJoinedBlocks returns a scanner if and only if the kind is RIGHT
   or FULL and the strictness is neither ASOF nor SEMI; else it returns
   none. *)
C19_ScannerIffRightOrFullNotAsofNotSemi ==
    phase = "scan" =>
        (scanner # NoScanner <=>
            /\ table_join.kind \in {"Right", "Full"}
            /\ table_join.strictness \notin {"Asof", "Semi"})

(* A RIGHT SEMI join with stored rows: getNonJoinedBlocks has returned none. *)
C19_Witness ==
    /\ phase = "scan" /\ Is("Right", "Semi")
    /\ DOMAIN maps # {}
    /\ scanner = NoScanner

(* C21: an addJoinedBlock call that fails (LOGICAL_ERROR or NOT_IMPLEMENTED)
   leaves the stored blocks, the hash table, the stash of null maps,
   data->empty and the used flags as they were before the call. *)
C21_FailedAddBlockChangesNothing ==
    [][returned'.value \in {"LOGICAL_ERROR", "NOT_IMPLEMENTED"} =>
          /\ blocks' = blocks
          /\ maps' = maps
          /\ blocks_nullmaps' = blocks_nullmaps
          /\ data_empty' = data_empty
          /\ used_flags' = used_flags]_vars

(* A locked engine over a hash table with one stored block of rows has
   refused a block with LOGICAL_ERROR: the block, the table and the flags of
   the build are there. *)
C21_Witness ==
    /\ type = "hashed" /\ returned.locked /\ ~returned.too_many_rows
    /\ returned.value = "LOGICAL_ERROR"
    /\ Len(blocks) = 1 /\ ~data_empty /\ DOMAIN maps # {}

(* C22: joinGet gives a column only under LEFT with ANY or the old ANY; under
   every other combination it fails with INCOMPATIBLE_TYPE_OF_JOIN before it
   reads the table. *)
C22_JoinGetOnlyLeftAny ==
    join_get.call = "joinGet" =>
        IF table_join.kind = "Left" /\ table_join.strictness \in {"Any", "RightAny"}
        THEN join_get.value = "column"
        ELSE join_get.value = "INCOMPATIBLE_TYPE_OF_JOIN" /\ ~join_get.touched

(* A LEFT ALL engine that holds key 1 has refused a joinGet for key 1. *)
C22_Witness ==
    /\ Is("Left", "All")
    /\ 1 \in DOMAIN maps
    /\ join_get.call = "joinGet" /\ Len(join_get.keys) = 1 /\ join_get.keys[1].k = 1
    /\ join_get.value = "INCOMPATIBLE_TYPE_OF_JOIN"

(* The key argument i has another type than the right key i, the Nullable and
   LowCardinality wrappers apart. *)
KeyTypeDiffers(i) == join_get.data_types[i].base # right_table_keys[i].base

(* C23: joinGetCheckAndGetReturnType reports NUMBER_OF_ARGUMENTS_DOESNT_MATCH
   when the number of key arguments is not the number of right keys; otherwise
   TYPE_MISMATCH for the first key whose type differs without its wrappers;
   otherwise NO_SUCH_COLUMN_IN_TABLE when the column is not an added column;
   otherwise it returns the type of the column, nullable under or_null. *)
C23_JoinGetCheckPrecedence ==
    join_get.call = "joinGetCheckAndGetReturnType" =>
        IF Len(join_get.data_types) # Len(right_table_keys)
        THEN join_get.value = "NUMBER_OF_ARGUMENTS_DOESNT_MATCH"
        ELSE IF \E i \in DOMAIN right_table_keys : KeyTypeDiffers(i)
        THEN /\ join_get.value = "TYPE_MISMATCH"
             /\ KeyTypeDiffers(join_get.key)
             /\ \A i \in 1..(join_get.key - 1) : ~KeyTypeDiffers(i)
        ELSE IF join_get.column_name \notin DOMAIN sample_block_with_columns_to_add
        THEN join_get.value = "NO_SUCH_COLUMN_IN_TABLE"
        ELSE /\ join_get.value = "type"
             /\ join_get.type.base = sample_block_with_columns_to_add[join_get.column_name].base
             /\ join_get.type.nullable =
                   (join_get.or_null
                       \/ sample_block_with_columns_to_add[join_get.column_name].nullable)

(* Two keys: the first argument matches its key but for the wrappers, the
   second does not, and the column is unknown: TYPE_MISMATCH for key 2. *)
C23_Witness ==
    /\ join_get.call = "joinGetCheckAndGetReturnType"
    /\ Len(right_table_keys) = 2 /\ Len(join_get.data_types) = 2
    /\ join_get.data_types[1] # right_table_keys[1] /\ ~KeyTypeDiffers(1)
    /\ KeyTypeDiffers(2)
    /\ join_get.column_name = "w"
    /\ join_get.value = "TYPE_MISMATCH" /\ join_get.key = 2

(* C24: constructing an engine with ASOF strictness and no dictionary reader
   fails with NOT_IMPLEMENTED when the kind is neither LEFT nor INNER,
   otherwise with SYNTAX_ERROR when there is no key column besides the asof
   column, otherwise with NOT_IMPLEMENTED when the right asof column is
   nullable; otherwise the construction succeeds. *)
C24_AsofConstructionFailures ==
    (phase # "new" /\ table_join.strictness = "Asof" /\ ~table_join.dictionary_reader) =>
        IF table_join.kind \notin {"Left", "Inner"}
        THEN thrown = Exception("NOT_IMPLEMENTED", "kind") /\ phase = "failed"
        ELSE IF Len(right_table_keys) < 2
        THEN thrown = Exception("SYNTAX_ERROR", "key_columns") /\ phase = "failed"
        ELSE IF right_table_keys[Len(right_table_keys)].nullable
        THEN thrown = Exception("NOT_IMPLEMENTED", "nullable") /\ phase = "failed"
        ELSE thrown = NoException /\ phase = "build" /\ type = "hashed"

(* RIGHT ASOF over one nullable key column: all three conditions hold and the
   exception is the one of the join kind. *)
C24_Witness ==
    /\ phase = "failed"
    /\ table_join.strictness = "Asof" /\ ~table_join.dictionary_reader
    /\ table_join.kind = "Right"
    /\ Len(right_table_keys) = 1 /\ right_table_keys[1].nullable
    /\ thrown = Exception("NOT_IMPLEMENTED", "kind")

(* The stored row a comes before the stored row b: block order, then row order. *)
RefBefore(a, b) == a[1] < b[1] \/ (a[1] = b[1] /\ a[2] < b[2])

(* The stored rows that were inserted with key k: no NULL key, mask passed. *)
InsertedWith(k) ==
    {ref \in StoredRefs :
        /\ StoredRow(ref).k = k /\ k # NULL
        /\ (table_join.mask_right => StoredRow(ref).m)}

(* C25: in a table of single RowRefs every key of an inserted row has a slot,
   and the slot holds the first row inserted with the key over all
   addJoinedBlock calls when any_take_last_row is false, the last when true. *)
C25_InsertOneKeepsFirstOrLast ==
    MapGetterMap(table_join.kind, table_join.strictness) = "MapsOne" =>
        \A k \in Keys :
            IF InsertedWith(k) = {} THEN k \notin DOMAIN maps
            ELSE /\ k \in DOMAIN maps
                 /\ maps[k] \in InsertedWith(k)
                 /\ \A ref \in InsertedWith(k) \ {maps[k]} :
                       IF any_take_last_row THEN RefBefore(ref, maps[k])
                       ELSE RefBefore(maps[k], ref)

(* A key inserted by both blocks, twice by one: the first row is kept. *)
C25_Witness ==
    /\ MapGetterMap(table_join.kind, table_join.strictness) = "MapsOne"
    /\ ~any_take_last_row
    /\ Len(blocks) = 2
    /\ Cardinality(InsertedWith(1)) = 3
    /\ InsertedWith(1) \cap {<<1, 1>>, <<2, 1>>} = {<<1, 1>>, <<2, 1>>}
    /\ maps[1] = <<1, 1>>

(* The seq lists the rows of the set, each once, in build encounter order. *)
InEncounterOrder(seq, set) ==
    /\ Len(seq) = Cardinality(set)
    /\ \A ref \in set : \E n \in DOMAIN seq : seq[n] = ref
    /\ \A m, n \in DOMAIN seq : m < n => RefBefore(seq[m], seq[n])

(* The right rows the last joinBlock emitted for left row i, in output order. *)
RECURSIVE EmittedFor(_, _)
EmittedFor(i, n) ==
    IF n > Len(joined.right) THEN <<>>
    ELSE (IF joined.left[n] = i THEN <<joined.right[n]>> ELSE <<>>) \o EmittedFor(i, n + 1)

(* The rows of the chain of key k the scan has returned, in output order. *)
RECURSIVE ScannedOfChain(_, _)
ScannedOfChain(k, n) ==
    IF n > Len(Scanned) THEN <<>>
    ELSE (IF Scanned[n] \in InsertedWith(k) THEN <<Scanned[n]>> ELSE <<>>)
         \o ScannedOfChain(k, n + 1)

(* C26: under ALL the chain of a key lists every row inserted with the key
   exactly once, in the order the build met them (block order, then row
   order); a probe row that finds the key is joined with the rows in that
   order, and the non-joined scan returns the rows of an unused chain in that
   order. *)
C26_ChainInBuildOrder ==
    table_join.strictness = "All" =>
        /\ \A k \in Keys :
              IF InsertedWith(k) = {} THEN k \notin DOMAIN maps
              ELSE k \in DOMAIN maps /\ InEncounterOrder(maps[k], InsertedWith(k))
        /\ \A i \in DOMAIN left_block :
              (Acceptable(i) /\ InsertedWith(left_block[i].k) # {}) =>
                  InEncounterOrder(EmittedFor(i, 1), InsertedWith(left_block[i].k))
        /\ \A k \in Keys :
              ScannedOfChain(k, 1) # <<>> =>
                  InEncounterOrder(ScannedOfChain(k, 1), InsertedWith(k))

(* Two blocks hold three rows of key 1 and a row of key 2; the probe found key
   2 and the scan has returned the chain of key 1. *)
C26_Witness ==
    /\ table_join.strictness = "All"
    /\ Len(blocks) = 2
    /\ Cardinality(InsertedWith(1)) = 3
    /\ Len(EmittedFor(1, 1)) = 1
    /\ ScannedOfChain(1, 1) = <<(<<1, 1>>), <<2, 1>>, <<2, 2>>>>

(* C27: under LEFT ANTI a probe row that is not acceptable for joining (a NULL
   key, or a false left condition mask) passes the filter: the block joinBlock
   produces holds it once. *)
C27_AntiLeftEmitsUnacceptable ==
    (phase = "probe" /\ Is("Left", "Anti")) =>
        \A i \in DOMAIN left_block : ~Acceptable(i) => LeftCount(joined, i) = 1

(* LEFT ANTI over a table that holds key 1: the left row with key 1 and a
   false mask is emitted, the left row with a NULL key and a true mask is not. *)
C27_Witness ==
    /\ phase = "probe" /\ Is("Left", "Anti")
    /\ 1 \in DOMAIN maps
    /\ Len(left_block) = 2
    /\ left_block[1].k = 1 /\ ~left_block[1].m
    /\ left_block[2].k = NULL /\ left_block[2].m
    /\ joined.left = <<1>>

(* Row i of the block left finds nothing: it is not acceptable for joining or
   its key is not in the table. *)
FindsNothing(left, i) ==
    \/ left[i].k = NULL
    \/ (table_join.mask_left /\ ~left[i].m)
    \/ left[i].k \notin DOMAIN maps

(* The joined block holds left row i once, beside default right columns. *)
EmittedOnceWithDefaults(i) ==
    /\ LeftCount(joined, i) = 1
    /\ \E n \in DOMAIN joined.left :
          joined.left[n] = i /\ n \in DOMAIN joined.right /\ joined.right[n] = Default

(* C28: a probe row that is not acceptable or whose key is absent from the
   table is emitted exactly once, with default right columns, under LEFT and
   FULL with a strictness other than SEMI; it is not emitted under INNER,
   RIGHT and LEFT SEMI; and a joinBlock over such rows sets no used flag. *)
C28_NotFoundRowDefaultsOrNothing ==
    (phase = "probe" /\ table_join.kind # "Cross") =>
        /\ \A i \in DOMAIN left_block :
              FindsNothing(left_block, i) =>
                  IF table_join.kind \in {"Left", "Full"} /\ table_join.strictness # "Semi"
                  THEN EmittedOnceWithDefaults(i)
                  ELSE LeftCount(joined, i) = 0
        /\ \A left \in LeftBlocks :
              (\A i \in DOMAIN left : FindsNothing(left, i)) =>
                  joinBlockImpl(table_join.kind, table_join.strictness,
                                used_flags, left).uf = used_flags

(* LEFT ANTI: the left row whose key is not stored is emitted with default
   right columns, the left row with a NULL key is not emitted. *)
C28_Witness ==
    /\ phase = "probe" /\ Is("Left", "Anti")
    /\ DOMAIN maps = {1}
    /\ Len(left_block) = 2
    /\ left_block[1].k = 2 /\ left_block[2].k = NULL
    /\ EmittedOnceWithDefaults(1)
    /\ LeftCount(joined, 2) = 0

(* The block joinBlock would return now for the left block when the right key
   column is required. *)
OutputRightKeys(left) ==
    joinBlockImplRightKeys(table_join.kind, table_join.strictness, used_flags, left)

(* C29: for every combination over a hash table and every left block, the
   columns of the block joinBlock returns have one row count: the left columns
   after the filter or the replication, the added right columns and the
   required right key column. *)
C29_ColumnsShareRowCount ==
    table_join.kind # "Cross" =>
        /\ phase = "probe" => Len(joined.left) = Len(joined.right)
        /\ \A left \in LeftBlocks :
              \E b \in {OutputRightKeys(left)} :
                  Len(b.left) = Len(b.right) /\ Len(b.left) = Len(b.right_key)

(* FULL ANY: the left row found its key and the block holds it beside no
   right row and a blank right key. *)
C29_Witness ==
    /\ phase = "probe" /\ Is("Full", "Any")
    /\ Len(left_block) = 1
    /\ left_block[1].k \in DOMAIN maps
    /\ joined.left = <<1>>
    /\ joined.right = <<>>
    /\ OutputRightKeys(left_block).right_key = <<NULL>>

(* Left row i of the last joinBlock call hits the slot of its key. *)
Hits(i) == Acceptable(i) /\ left_block[i].k \in DOMAIN maps

(* C30: under INNER ANY, over all the joinBlock calls on the engine, the row
   of a slot is emitted at most once, and exactly once when a probe row has
   hit the slot; within a call a probe row is emitted, beside the row of its
   slot, only if it hits and no earlier row of the block has its key, and a
   probe row that hits a slot emitted before is filtered out. *)
C30_InnerAnyEmitsSlotOnce ==
    Is("Inner", "Any") =>
        /\ \A ref \in StoredRefs : emitted[ref] <= 1
        /\ \A k \in DOMAIN maps :
              emitted[maps[k]] = 1 <=> getUsedSafe(used_flags, offsetInternal(k))
        /\ phase = "probe" =>
              /\ WellFormed(joined)
              /\ \A i \in DOMAIN left_block :
                    /\ Hits(i) => emitted[maps[left_block[i].k]] = 1
                    /\ LeftCount(joined, i) <= 1
                    /\ LeftCount(joined, i) = 1 =>
                          /\ Hits(i)
                          /\ \E n \in DOMAIN joined.right :
                                JoinedRows(joined)[n] = <<i, maps[left_block[i].k]>>
                          /\ \A j \in 1..(i - 1) :
                                Hits(j) => left_block[j].k # left_block[i].k

(* The slot of key 1 was emitted by an earlier call; the last call probed key
   1 and key 2: only the row of key 2 is in its block. *)
C30_Witness ==
    /\ phase = "probe" /\ Is("Inner", "Any")
    /\ DOMAIN maps = {1, 2}
    /\ emitted[maps[1]] = 1 /\ emitted[maps[2]] = 1
    /\ Len(left_block) = 2
    /\ left_block[1].k = 1 /\ left_block[1].m
    /\ left_block[2].k = 2 /\ left_block[2].m
    /\ joined.left = <<2>>
    /\ joined.right = <<maps[2]>>

(* Some row of some prober's left block has the key k. *)
Probed(k) ==
    \E w \in DOMAIN workers : \E i \in DOMAIN workers[w].left : workers[w].left[i].k = k

(* C31: under RIGHT ANTI every joinBlock call returns a block without rows;
   once the calls have returned, the flag of a slot is set iff a probe row had
   its key; the complete non-joined scan then returns each stored row whose
   key no probe row had and each stashed row once, and no other row. *)
C31_RightAntiEmitsOnlyInScan ==
    Is("Right", "Anti") =>
        /\ \A w \in DOMAIN workers :
              workers[w].pc = "done" =>
                  workers[w].joined = [left |-> <<>>, right |-> <<>>]
        /\ ProbersDone =>
              \A k \in DOMAIN maps : getUsedSafe(used_flags, offsetInternal(k)) <=> Probed(k)
        /\ (phase = "scan" /\ scanner.done) =>
              \A ref \in StoredRefs :
                  Count(Scanned, ref) =
                      IF Stashed(ref) # {} THEN 1
                      ELSE IF Probed(StoredRow(ref).k) THEN 0 ELSE 1

(* RIGHT ANTI over rows with the keys 1, 2 and NULL: a prober had key 1, and
   the complete scan returned the row of key 2 and the stashed row. *)
C31_Witness ==
    /\ Is("Right", "Anti")
    /\ phase = "scan" /\ scanner.done
    /\ Probed(1) /\ ~Probed(2)
    /\ \E r1, r2, r3 \in StoredRefs :
          /\ StoredRow(r1).k = 1 /\ StoredRow(r2).k = 2 /\ StoredRow(r3).k = NULL
          /\ Stashed(r3) # {}
          /\ Count(Scanned, r1) = 0 /\ Count(Scanned, r2) = 1 /\ Count(Scanned, r3) = 1

(* The method chooseMethod must return for the key columns, rule by rule. *)
MethodOf(columns) ==
    LET fixed == \A j \in DOMAIN columns : columns[j].class \in {"ColumnVector", "ColumnFixedString"}
        bytes == SeqSum([j \in DOMAIN columns |-> columns[j].size])
    IN  IF Len(columns) = 0 THEN "CROSS"
        ELSE IF Len(columns) = 1 /\ columns[1].class = "ColumnVector"
        THEN CASE columns[1].size = 1 -> "key8"
               [] columns[1].size = 2 -> "key16"
               [] columns[1].size = 4 -> "key32"
               [] columns[1].size = 8 -> "key64"
               [] columns[1].size = 16 -> "keys128"
               [] columns[1].size = 32 -> "keys256"
               [] OTHER -> "LOGICAL_ERROR"
        ELSE IF fixed /\ bytes <= 16 THEN "keys128"
        ELSE IF fixed /\ bytes <= 32 THEN "keys256"
        ELSE IF Len(columns) = 1
                /\ columns[1].class \in {"ColumnString", "ColumnConst(ColumnString)"}
        THEN "key_string"
        ELSE IF Len(columns) = 1 /\ columns[1].class = "ColumnFixedString"
        THEN "key_fixed_string"
        ELSE "hashed"

(* C32: the constructor of an engine that is neither ASOF nor over a
   dictionary leaves in data->type the first rule of chooseMethod that applies
   to its key columns: no key gives CROSS; one numeric key of 1, 2, 4, 8, 16
   or 32 bytes gives key8, key16, key32, key64, keys128 or keys256 and of any
   other width LOGICAL_ERROR; keys that are all fixed and contiguous give
   keys128 up to 16 bytes and keys256 up to 32; one string key gives
   key_string; one fixed string key gives key_fixed_string; else hashed. *)
C32_ChooseMethodRulesTopDown ==
    (/\ phase \in {"build", "failed"}
     /\ table_join.strictness # "Asof" /\ ~table_join.dictionary_reader) =>
        IF MethodOf(key_columns) = "LOGICAL_ERROR"
        THEN phase = "failed" /\ thrown.code = "LOGICAL_ERROR"
        ELSE phase = "build" /\ thrown = NoException /\ type = MethodOf(key_columns)

(* One fixed string key of 16 bytes: the keys are packed into keys128. *)
C32_Witness ==
    /\ phase = "build"
    /\ table_join.strictness = "All" /\ ~table_join.dictionary_reader
    /\ key_columns = <<Column("ColumnFixedString", 16)>>
    /\ type = "keys128"

(* The key getter insertFromBlockImplTypeCase and joinRightColumns make. *)
KeyGetter == createKeyGetter(key_columns, key_sizes, table_join.strictness = "Asof")

(* The sequence seq without its last element. *)
Front(seq) == [j \in 1..(Len(seq) - 1) |-> seq[j]]

(* C33: after the construction of an ASOF engine the method is the one of the
   key columns without the last, key_sizes has a size per key column and ends
   with the byte width of the asof column, and the key getter of the build
   and of the probe has the key columns and the sizes without the last. *)
C33_AsofKeyExcludedFromHashKey ==
    (phase = "build" /\ table_join.strictness = "Asof" /\ ~table_join.dictionary_reader) =>
        /\ type = MethodOf(Front(key_columns))
        /\ Len(key_sizes) = Len(key_columns)
        /\ key_sizes[Len(key_sizes)] = key_columns[Len(key_columns)].size
        /\ KeyGetter.key_columns = Front(key_columns)
        /\ KeyGetter.key_sizes = Front(key_sizes)

(* A 4-byte key and an 8-byte asof column: the method is key32, which the two
   columns together would not give, and the key getter has the first only. *)
C33_Witness ==
    /\ phase = "build" /\ table_join.strictness = "Asof" /\ ~table_join.dictionary_reader
    /\ key_columns = <<Column("ColumnVector", 4), Column("ColumnVector", 8)>>
    /\ type = "key32"
    /\ key_sizes = <<4, 8>>
    /\ KeyGetter.key_columns = <<Column("ColumnVector", 4)>>
    /\ KeyGetter.key_sizes = <<4>>

(* The flags uf have one flag per cell of the buffer and one of the zero
   storage, so the offset of every slot of the table indexes a flag. *)
FlagPerCell(uf) ==
    /\ uf.need_flags
    /\ Len(uf.flags) = getBufferSizeInCells + 1
    /\ \A k \in DOMAIN maps : offsetInternal(k) + 1 \in DOMAIN uf.flags

(* C34: under a kind and strictness that track used flags, once a block was
   added the engine's flags have one flag per cell of the buffer plus one, and
   so have the flags of an engine that reused the joined data. *)
C34_FlagsCoverBuffer ==
    MapGetterFlagged(table_join.kind, table_join.strictness) =>
        /\ blocks # <<>> => FlagPerCell(used_flags)
        /\ other.shared => FlagPerCell(other.used_flags)

(* Two blocks were added, the slot of the last cell is filled and a second
   engine reused the data: both vectors have a flag for that slot. *)
C34_Witness ==
    /\ MapGetterFlagged(table_join.kind, table_join.strictness)
    /\ Len(blocks) = 2 /\ returned.value = "true"
    /\ getBufferSizeInCells \in DOMAIN maps
    /\ other.shared
    /\ Len(used_flags.flags) = getBufferSizeInCells + 1
    /\ Len(other.used_flags.flags) = getBufferSizeInCells + 1

(* Every flag set in before is a flag set in after. *)
FlagsGrow(before, after) ==
    \A n \in DOMAIN before.flags :
        before.flags[n] => n \in DOMAIN after.flags /\ after.flags[n]

(* No flag of uf is set. *)
FlagsCleared(uf) == \A n \in DOMAIN uf.flags : ~uf.flags[n]

(* C35: a step of concurrent joinBlock calls keeps every set flag set; only a
   step that stores a block (the reinitialisation of addJoinedBlock) may
   unset flags, and then no flag is set after it. *)
C35_UsedFlagsGrow ==
    [][\/ FlagsGrow(used_flags, used_flags')
       \/ (blocks' # blocks /\ FlagsCleared(used_flags'))]_vars

(* Two probers are inside joinBlock, setUsedOnce has told one of them that a
   slot was taken, and the flag of every slot is set. *)
C35_Witness ==
    /\ Len(workers) = 2
    /\ \A w \in DOMAIN workers : workers[w].pc # "done"
    /\ \E w \in DOMAIN workers : \E n \in DOMAIN workers[w].once :
          ~workers[w].once[n][2]
    /\ \A off \in 1..getBufferSizeInCells : used_flags.flags[off + 1]

(* The stash entry n is a null map: it marks the rows of its block that have a
   NULL key and no other. *)
IsNullKeyEntry(n) ==
    \A r \in DOMAIN blocks_nullmaps[n][2] :
        blocks_nullmaps[n][2][r] <=> blocks[blocks_nullmaps[n][1]][r].k = NULL

(* The stash entry n is a not-joined map: every row it marks has a key and
   fails the right ON condition. *)
IsNotJoinedEntry(n) ==
    \A r \in DOMAIN blocks_nullmaps[n][2] :
        blocks_nullmaps[n][2][r] =>
            /\ blocks[blocks_nullmaps[n][1]][r].k # NULL
            /\ ~blocks[blocks_nullmaps[n][1]][r].m

(* C36: under RIGHT and FULL, after any sequence of addJoinedBlock calls a
   stored row that the insertion skipped is marked by exactly one stash
   entry: a row with a NULL key by the null map of its block, whether or not
   it passes the condition, and a row with a key that fails the right ON
   condition by the not-joined map; a row the insertion took is marked by
   none. *)
C36_SkippedRowsStashedOnce ==
    isRightOrFull(table_join.kind) =>
        \A ref \in StoredRefs :
            /\ Cardinality(Stashed(ref)) = IF Joinable(ref) THEN 0 ELSE 1
            /\ \A n \in Stashed(ref) :
                  IF StoredRow(ref).k = NULL THEN IsNullKeyEntry(n) ELSE IsNotJoinedEntry(n)

(* One block of a RIGHT join with a right ON condition holds a row with a NULL
   key that fails the condition and a row with a key that fails it: the first
   is marked by the null map only, the second by the not-joined map; a third
   row is in the table. *)
C36_Witness ==
    /\ table_join.kind = "Right" /\ table_join.mask_right
    /\ \E a, b \in StoredRefs :
          /\ a[1] = b[1]
          /\ StoredRow(a).k = NULL /\ ~StoredRow(a).m
          /\ StoredRow(b).k # NULL /\ ~StoredRow(b).m
          /\ \E n \in Stashed(a) : Stashed(a) = {n} /\ IsNullKeyEntry(n)
          /\ \E n \in Stashed(b) : Stashed(b) = {n} /\ IsNotJoinedEntry(n) /\ n \notin Stashed(a)
    /\ \E c \in StoredRefs : Joinable(c) /\ Stashed(c) = {}

(* The local state joinRightColumns leaves for the left block, from the flags
   of the state. *)
Replicated(left) ==
    joinRightColumns(table_join.kind, table_join.strictness,
                     need_filter(table_join.kind, table_join.strictness), used_flags, left).st

(* The number of rows of the added columns once the first i rows of the left
   block are processed. *)
AddedUpTo(left, i) == Len(Replicated(SubSeq(left, 1, i)).columns)

(* C37: under a kind and strictness with replication, for every left block
   joinRightColumns leaves one offset per left row, the offset of row i is the
   number of rows the added columns have after rows 1..i (a default row
   counted), so the offsets never decrease, and the last offset is the number
   of rows of the added columns. *)
C37_OffsetsArePrefixSums ==
    (table_join.kind # "Cross"
        /\ need_replication(table_join.kind, table_join.strictness)) =>
        \A left \in LeftBlocks :
            \E st \in {Replicated(left)} :
                /\ Len(st.offsets) = Len(left)
                /\ \A i \in DOMAIN left :
                      /\ st.offsets[i] = AddedUpTo(left, i)
                      /\ st.offsets[i] >= (IF i = 1 THEN 0 ELSE st.offsets[i - 1])
                /\ Len(left) > 0 => st.offsets[Len(left)] = Len(st.columns)

(* LEFT ALL after a probe with a row with a NULL key and a row that finds a
   chain of two: the offsets are 1 and 3, and three rows were added. *)
C37_Witness ==
    /\ Is("Left", "All") /\ phase = "probe"
    /\ Len(left_block) = 2
    /\ left_block[1].k = NULL
    /\ isFound(maps, left_block[2]) /\ Len(maps[left_block[2].k]) = 2
    /\ Replicated(left_block).offsets = <<1, 3>>
    /\ Len(joined.right) = 3
    /\ joined.left = <<1, 2, 2>>

(* The step is a joinBlock call resumed from the continuation of the state. *)
ResumedCall == not_processed.set /\ chunks' # chunks

(* C38: a cross joinBlock call resumed from a continuation emits no row of the
   left row the continuation stands at, and a continuation it saves stands at
   a later left row; so a left block of L rows is finished, with no
   continuation left, after at most L + 1 calls. *)
C38_CrossReentryTerminates ==
    /\ [](/\ Len(chunks) <= Len(left_block) + 1
          /\ Len(chunks) = Len(left_block) + 1 => ~not_processed.set)
    /\ [][ResumedCall =>
            /\ not_processed'.set =>
                  not_processed'.left_position > not_processed.left_position
            /\ \A n \in DOMAIN chunks'[Len(chunks')] :
                  chunks'[Len(chunks')][n][1] # not_processed.left_position + 1]_vars

(* A left block of two rows under a limit every left row exceeds: the third
   call, resumed behind the last left row, emitted nothing and left no
   continuation. *)
C38_Witness ==
    /\ table_join.kind = "Cross"
    /\ Len(left_block) = 2
    /\ Len(chunks) = 3
    /\ chunks[1] # <<>> /\ chunks[2] # <<>> /\ chunks[3] = <<>>
    /\ ~not_processed.set

(* The stored row ref is in the hash table: in the chain of its key or, with a
   RowRef per key, its key has a slot. *)
InTable(ref) ==
    /\ StoredRow(ref).k \in DOMAIN maps
    /\ MapGetterMap(table_join.kind, table_join.strictness) = "MapsAll" =>
          \E n \in DOMAIN maps[StoredRow(ref).k] : maps[StoredRow(ref).k][n] = ref

(* The rows the engine holds, counted from the stored blocks: all of them
   under CROSS, the rows the insertion took under a chain per key, their keys
   under a RowRef per key. *)
RowsHeld ==
    IF table_join.kind = "Cross" THEN Cardinality(StoredRefs)
    ELSE IF MapGetterMap(table_join.kind, table_join.strictness) = "MapsAll"
    THEN Cardinality({ref \in StoredRefs : Joinable(ref)})
    ELSE Cardinality({StoredRow(ref).k : ref \in {x \in StoredRefs : Joinable(x)}})

(* C39: an addJoinedBlock call that returns false has appended its block to
   the stored blocks; after it every stored row the insertion takes is in the
   table, under RIGHT and FULL every stored row it skips is marked in the
   stash, and getTotalRowCount counts the rows of all the stored blocks. *)
C39_RejectedBlockIsKept ==
    /\ [](returned.value = "false" =>
            /\ blocks # <<>>
            /\ getTotalRowCount(blocks, maps) = RowsHeld
            /\ table_join.kind # "Cross" =>
                  \A ref \in StoredRefs :
                      IF Joinable(ref) THEN InTable(ref)
                      ELSE isRightOrFull(table_join.kind) => Stashed(ref) # {})
    /\ [][(returned'.value = "false" /\ returned' # returned) =>
            /\ Len(blocks') = Len(blocks) + 1
            /\ SubSeq(blocks', 1, Len(blocks)) = blocks]_vars

(* The second block of a RIGHT ALL engine limited to MaxRows rows was
   rejected: it is the second stored block, its row with a key is the second
   of a chain, its row with a NULL key is stashed, and three rows are
   counted. *)
C39_Witness ==
    /\ Is("Right", "All") /\ table_join.size_limits.max_rows = MaxRows
    /\ returned.value = "false"
    /\ Len(blocks) = 2 /\ Len(blocks[1]) = 2
    /\ \E a, b \in StoredRefs :
          /\ a[1] = 2 /\ b[1] = 2
          /\ Joinable(a) /\ InTable(a) /\ Len(maps[StoredRow(a).k]) = 2
          /\ StoredRow(b).k = NULL /\ Stashed(b) # {}
    /\ getTotalRowCount(blocks, maps) = 3

(* The concurrent joinBlock calls that have returned. *)
Returned == {w \in DOMAIN workers : workers[w].pc = "done"}

(* C40: under a combination whose found branch does not call setUsedOnce, two
   concurrent joinBlock calls on equal left blocks return equal blocks,
   however their iterations interleave and whatever flags the other had set
   before. *)
C40_OutputIgnoresUsedFlags ==
    ~UsesSetUsedOnce(table_join.kind, table_join.strictness) =>
        \A w1, w2 \in Returned :
            workers[w1].left = workers[w2].left => workers[w1].joined = workers[w2].joined

(* RIGHT ALL: two probers took the same left block with a key that has a
   slot, both set its flag, and both returned the same rows of the slot. *)
C40_Witness ==
    /\ Is("Right", "All")
    /\ Returned = {1, 2}
    /\ workers[1].left = workers[2].left
    /\ \E i \in DOMAIN workers[1].left :
          /\ isFound(maps, workers[1].left[i])
          /\ used_flags.flags[offsetInternal(workers[1].left[i].k) + 1]
    /\ workers[1].joined.right # <<>>
    /\ workers[1].joined = workers[2].joined

====
